---------------------------- MODULE Spec2Model ----------------------------
(***************************************************************************)
(* The dynamic linker of touchHLE (src/dyld.rs) over the guest address     *)
(* space (src/mem.rs).                                                     *)
(*                                                                         *)
(* A 32-bit quantity (a guest address or a guest word) is the pair         *)
(* <<hi, lo>> of its two 16-bit halves, so that every u32 value and the    *)
(* wrap at 2^32 are representable.  Guest memory is byte addressed and     *)
(* little endian; `mem` holds the non-zero bytes only (the backing array   *)
(* is allocated zeroed).                                                   *)
(***************************************************************************)
EXTENDS Integers, Sequences, FiniteSets, TLC

VARIABLES
    mem,                      \* Mem.bytes: address -> non-zero byte
    allocs,                   \* Mem.allocator: live chunks [base, size]
    reserved,                 \* Mem.allocator: reserved chunks [base, size]
    linked_host_functions,    \* Dyld.linked_host_functions
    return_to_host_routine,   \* Dyld.return_to_host_routine (NoAddr = None)
    constants_to_link_later,  \* Dyld.constants_to_link_later
    aborted,                  \* the process has panicked
    call,                     \* the last operation, its arguments and result
    proc_addresses,           \* the guest functions create_proc_address
                              \* returned: [addr, symbol]
    image,                    \* which of the app bundles the loader loaded
    steps                     \* operations on Mem and Ptr made so far

vars == <<mem, allocs, reserved, linked_host_functions, return_to_host_routine,
          constants_to_link_later, aborted, call, proc_addresses, image,
          steps>>

---------------------------------------------------------------------------
(* Bounds of the model. *)

\* create_proc_address calls explored in one run
MaxProcAddresses == 2
\* 16-byte slots of heap the allocator may hand out
HeapSlots == 6
\* operations on Mem explored in one run of the address space alone
MaxMemOps == 2
\* operations explored in one run of the allocator and the address space
MaxHeapOps == 5
\* operations explored in one run of the C strings
MaxCstrOps == 3
\* traps and breakpoints explored in one run of the trap handler
MaxTrapOps == 2

---------------------------------------------------------------------------
(* 32-bit arithmetic on <<hi, lo>> pairs. *)

Half == 65536

U32(n) == <<n \div Half, n % Half>>

Zero32 == <<0, 0>>

\* wrapping a + n for a small natural n
AddN(a, n) ==
    LET lo == a[2] + n
    IN  <<(a[1] + lo \div Half) % Half, lo % Half>>

\* a + n leaves the 32-bit range
AddNOverflows(a, n) == a[1] + (a[2] + n) \div Half >= Half

\* wrapping a + b
Add32(a, b) ==
    LET lo == a[2] + b[2]
    IN  <<(a[1] + b[1] + lo \div Half) % Half, lo % Half>>

Add32Overflows(a, b) == a[1] + b[1] + (a[2] + b[2]) \div Half >= Half

Lt32(a, b) == a[1] < b[1] \/ (a[1] = b[1] /\ a[2] < b[2])

Le32(a, b) == a = b \/ Lt32(a, b)

\* x - a for a <= x < a + 2^16
Diff(x, a) == (x[1] - a[1]) * Half + x[2] - a[2]

\* x lies in [a, a + n)
InRange(x, a, n) ==
    /\ Le32(a, x)
    /\ x[1] - a[1] <= 1
    /\ Diff(x, a) < n


---------------------------------------------------------------------------
(* Guest memory: Mem::bytes_at, bytes_at_mut, read, write. *)

NULL_PAGE_SIZE == <<0, \h1000>>

\* the slice [ptr..][..count] runs past the end of the 4 GiB array
EndsPastTop(a, count) == AddNOverflows(a, count) /\ AddN(a, count) # Zero32

\* bytes_at / bytes_at_mut return a slice instead of panicking
AccessOk(a, count) == ~Lt32(a, NULL_PAGE_SIZE) /\ ~EndsPastTop(a, count)

ByteAt(m, a) == IF a \in DOMAIN m THEN m[a] ELSE 0

\* the little-endian bytes of a u32
Bytes32(w) == <<w[2] % 256, w[2] \div 256, w[1] % 256, w[1] \div 256>>

\* read::<u32> (read_unaligned of 4 bytes)
Read32(m, a) ==
    <<ByteAt(m, AddN(a, 2)) + 256 * ByteAt(m, AddN(a, 3)),
      ByteAt(m, a) + 256 * ByteAt(m, AddN(a, 1))>>

\* the bytes of the slice after copying bs to address a
WriteBytes(m, a, bs) ==
    LET addrs == {AddN(a, i - 1) : i \in 1..Len(bs)}
        val(x) == IF x \in addrs THEN bs[Diff(x, a) + 1] ELSE m[x]
        dom   == {x \in (DOMAIN m) \cup addrs : val(x) # 0}
    IN  [x \in dom |-> val(x)]

\* write::<u32>
Write32(m, a, w) == WriteBytes(m, a, Bytes32(w))

\* Ptr<u32> + n: checked_mul and checked_add, both unwrapped
PtrAddOk(a, n) == ~AddNOverflows(a, 4 * n)

PtrAdd(a, n) == AddN(a, 4 * n)

---------------------------------------------------------------------------
(* The allocator behind Mem::alloc.  It hands out a chunk of the heap that *)
(* overlaps no live and no reserved chunk, or the process aborts.          *)

HeapBase == <<1, 0>>

SlotSize == 16

Overlaps(b1, n1, b2, n2) ==
    /\ n1 > 0 /\ n2 > 0
    /\ Lt32(b1, AddN(b2, n2))
    /\ Lt32(b2, AddN(b1, n1))

\* the bytes a chunk keeps from other chunks: a chunk of no bytes still has
\* an address of its own
Occupied(size) == IF size = 0 THEN 1 ELSE size

\* candidate bases at which a chunk of `size` bytes fits
AllocFits(al, rs, size) ==
    {c \in {AddN(HeapBase, SlotSize * k) : k \in 0..(HeapSlots - 1)} :
        /\ Diff(c, HeapBase) + size <= SlotSize * HeapSlots
        /\ \A ch \in al \cup rs :
            ~Overlaps(c, Occupied(size), ch.base, Occupied(ch.size))}

AllocCanFit(al, rs, size) == AllocFits(al, rs, size) # {}

\* allocator.alloc(size): the base of the new chunk, the lowest that fits
AllocBase(al, rs, size) ==
    LET fits == AllocFits(al, rs, size)
    IN  CHOOSE c \in fits : \A d \in fits : Le32(c, d)

---------------------------------------------------------------------------
(* Instruction encodings. *)

\* encode_a32_svc that asserts the immediate to be free of the top 7 bits
SvcImmOk_TopSevenBits(imm) == imm \div Half < 512

\* encode_a32_svc: the assertion imm & 0xff000000 == 0
SvcImmOk(imm) == imm \div Half < 256

encode_a32_svc(imm) == <<\hef00 + imm \div Half, imm % Half>>

encode_a32_ret == <<\he12f, \hff1e>>

encode_a32_trap == <<\he7ff, \hdefe>>

SVC_LAZY_LINK == 0

SVC_RETURN_TO_HOST == 1

SVC_BREAKPOINT == 2

SVC_LINKED_FUNCTIONS_BASE == SVC_BREAKPOINT + 1

SYMBOL_STUB_INSTRUCTIONS == << <<\he59f, \hc000>>, <<\he59c, \hf000>> >>

PIC_SYMBOL_STUB_INSTRUCTIONS ==
    << <<\he59f, \hc004>>, <<\he08f, \hc00c>>, <<\he59c, \hf000>> >>

---------------------------------------------------------------------------
(* The host registries. *)

\* a prefix of opengles::FUNCTIONS: (mangled symbol name, host function)
GLES_FUNCTIONS ==
    << <<"_glGetError", "glGetError">>,
       <<"_glEnable", "glEnable">>,
       <<"_glDisable", "glDisable">> >>

FUNCTION_LISTS == << GLES_FUNCTIONS >>

\* HostConstant descriptors: NSString(str), NullPtr, Custom(f)
CF_CONSTANTS ==
    << <<"_kCFAllocatorDefault", [kind |-> "NullPtr", arg |-> ""]>> >>

NS_CONSTANTS ==
    << <<"_NSDefaultRunLoopMode",
         [kind |-> "NSString", arg |-> "kCFRunLoopDefaultMode"]>>,
       <<"_NSRunLoopCommonModes",
         [kind |-> "NSString", arg |-> "kCFRunLoopCommonModes"]>> >>

CTYPE_CONSTANTS ==
    << <<"__DefaultRuneLocale", [kind |-> "Custom", arg |-> "rune_locale"]>> >>

CONSTANT_LISTS == << CTYPE_CONSTANTS, CF_CONSTANTS, NS_CONSTANTS >>

RECURSIVE Flatten(_)
Flatten(lists) ==
    IF lists = <<>> THEN <<>> ELSE Head(lists) \o Flatten(Tail(lists))

\* search_lists: the value of the first entry named `symbol`
search_lists(lists, symbol) ==
    LET flat == Flatten(lists)
        hits == {i \in 1..Len(flat) : flat[i][1] = symbol}
    IN  IF hits = {}
        THEN [found |-> FALSE, value |-> ""]
        ELSE [found |-> TRUE,
              value |-> flat[CHOOSE i \in hits : \A j \in hits : i <= j][2]]

---------------------------------------------------------------------------
(* The loaded binaries (MachO): sections, exported symbols, relocations.   *)

\* an indirect symbol table entry without a name (None)
NoSym == ""

NoAddr == <<0, 0>>

AppStubs ==
    [name |-> "__symbol_stub4", addr |-> <<0, \h2000>>, size |-> 36,
     entry_size |-> 12,
     indirect_undef_symbols |-> <<"_glGetError", "___udivsi3", "_missing">>]

AppNlPtrs ==
    [name |-> "__nl_symbol_ptr", addr |-> <<0, \h2200>>, size |-> 24,
     entry_size |-> 4,
     indirect_undef_symbols |->
        <<"__ZTIi", "_kCFAllocatorDefault", NoSym, "_NSDefaultRunLoopMode",
          "_unknown_const", "_NSRunLoopCommonModes">>]

GccStubs ==
    [name |-> "__picsymbolstub4", addr |-> <<0, \h3000>>, size |-> 48,
     entry_size |-> 16,
     indirect_undef_symbols |-> <<"_glGetError", "__ZdlPv", "_app_only">>]

GccNlPtrs ==
    [name |-> "__nl_symbol_ptr", addr |-> <<0, \h3200>>, size |-> 8,
     entry_size |-> 4,
     indirect_undef_symbols |-> <<"__DefaultRuneLocale", "_kCFAllocatorDefault">>]

CxxStubs ==
    [name |-> "__picsymbolstub4", addr |-> <<0, \h4000>>, size |-> 16,
     entry_size |-> 16,
     indirect_undef_symbols |-> <<"___udivsi3">>]

bins ==
    << [name |-> "app",
        sections |-> <<AppStubs, AppNlPtrs>>,
        exported_symbols |-> {<<"_main", <<0, \h1800>>>>,
                              <<"_app_only", <<0, \h1810>>>>,
                              <<"_NSRunLoopCommonModes", <<0, \h1820>>>>},
        external_relocations |->
            << <<<<0, \h2300>>, "_OBJC_CLASS_$_NSObject">>,
               <<<<0, \h2304>>, "_unhandled_reloc">>,
               <<<<0, \h2308>>, "___CFConstantStringClassReference">>,
               <<<<0, \h230c>>, "_OBJC_METACLASS_$_NSObject">> >>],
       [name |-> "libgcc_s.1.dylib",
        sections |-> <<GccNlPtrs, GccStubs>>,
        exported_symbols |-> {<<"___udivsi3", <<0, \h3800>>>>,
                              <<"__ZTIi", <<0, \h3810>>>>},
        external_relocations |-> <<>>],
       [name |-> "libstdc++.6.dylib",
        sections |-> <<CxxStubs>>,
        exported_symbols |-> {<<"__ZdlPv", <<0, \h4800>>>>,
                              <<"__ZTIi", <<0, \h4810>>>>,
                              <<"_glGetError", <<0, \h4820>>>>},
        external_relocations |-> <<>>] >>

\* app bundles the loader refuses at initial linking: the stub section of
\* libgcc_s has an entry size that is neither 12 nor 16, or a size that is
\* no multiple of its entry size
BadEntrySizeBins ==
    [bins EXCEPT ![2].sections[2].entry_size = 8]

BadSectionSizeBins ==
    [bins EXCEPT ![2].sections[2].size = 40]

Images == {"ok", "bad_entry_size", "bad_section_size"}

\* an app bundle whose second stub has no name in the indirect symbol table
NamelessStubBins ==
    [bins EXCEPT ![1].sections[1].indirect_undef_symbols[2] = NoSym]

\* the list of binaries the linker is given
LoadedBins(img) ==
    CASE img = "bad_entry_size" -> BadEntrySizeBins
      [] img = "bad_section_size" -> BadSectionSizeBins
      [] img = "nameless_stub" -> NamelessStubBins
      [] OTHER -> bins

\* MachO::get_section: the first section of that name, if any
HasSection(bin, name) == \E i \in 1..Len(bin.sections) : bin.sections[i].name = name

get_section(bin, name) ==
    bin.sections[CHOOSE i \in 1..Len(bin.sections) :
                    /\ bin.sections[i].name = name
                    /\ \A j \in 1..(i - 1) : bin.sections[j].name # name]

\* bin.get_section("__symbol_stub4").or_else(|| bin.get_section("__picsymbolstub4"))
HasStubs(bin) == HasSection(bin, "__symbol_stub4") \/ HasSection(bin, "__picsymbolstub4")

StubSection(bin) ==
    IF HasSection(bin, "__symbol_stub4")
    THEN get_section(bin, "__symbol_stub4")
    ELSE get_section(bin, "__picsymbolstub4")

\* exported_symbols.get(symbol)
Exports(bin, symbol) == \E e \in bin.exported_symbols : e[1] = symbol

ExportAddr(bin, symbol) == (CHOOSE e \in bin.exported_symbols : e[1] = symbol)[2]

---------------------------------------------------------------------------
(* The loaded image: what the loader left in guest memory.                 *)

Neg32(b) == AddN(<<Half - 1 - b[1], Half - 1 - b[2]>>, 1)

Sub32(a, b) == Add32(a, Neg32(b))

\* the lazy symbol pointer tables; a fresh pointer holds the binding helper
AppLaPtrs == <<0, \h2100>>

GccLaPtrs == <<0, \h3100>>

\* this table lies below the stubs that use it: their offsets are negative
CxxLaPtrs == <<0, \h3f00>>

BindingHelper == <<0, \h1c00>>

\* the words of stub i of a section whose lazy pointers start at la
StubImage(stubs, la, i) ==
    LET S  == AddN(stubs.addr, i * stubs.entry_size)
        lp == AddN(la, 4 * i)
    IN  IF stubs.entry_size = 12
        THEN {<<S, SYMBOL_STUB_INSTRUCTIONS[1]>>,
              <<AddN(S, 4), SYMBOL_STUB_INSTRUCTIONS[2]>>,
              <<AddN(S, 8), lp>>,
              <<lp, BindingHelper>>}
        ELSE {<<S, PIC_SYMBOL_STUB_INSTRUCTIONS[1]>>,
              <<AddN(S, 4), PIC_SYMBOL_STUB_INSTRUCTIONS[2]>>,
              <<AddN(S, 8), PIC_SYMBOL_STUB_INSTRUCTIONS[3]>>,
              <<AddN(S, 12), Sub32(lp, AddN(S, 12))>>,
              <<lp, BindingHelper>>}

SectionImage(stubs, la) ==
    UNION {StubImage(stubs, la, i) : i \in 0..(stubs.size \div stubs.entry_size - 1)}

\* the memory holding the given (address, word) pairs and zero elsewhere
LoadWords(ws) ==
    LET bytes == {<<AddN(w[1], k), Bytes32(w[2])[k + 1]>> : w \in ws, k \in 0..3}
        dom   == {b[1] : b \in {c \in bytes : c[2] # 0}}
    IN  [x \in dom |-> (CHOOSE b \in bytes : b[1] = x)[2]]

\* what the file holds in a pointer slot the linker is to fill
Unbound == <<\hffff, \hfff0>>

\* the relocation targets and the non-lazy pointer slots of a binary
DataImage(bin) ==
    {<<bin.external_relocations[i][1], Unbound>> :
        i \in 1..Len(bin.external_relocations)}
    \cup (IF HasSection(bin, "__nl_symbol_ptr")
          THEN LET ptrs == get_section(bin, "__nl_symbol_ptr")
               IN  {<<AddN(ptrs.addr, 4 * i), Unbound>> :
                        i \in 0..(ptrs.size \div 4 - 1)}
          ELSE {})

LoadedImage ==
    LoadWords(SectionImage(AppStubs, AppLaPtrs)
              \cup SectionImage(GccStubs, GccLaPtrs)
              \cup SectionImage(CxxStubs, CxxLaPtrs)
              \cup UNION {DataImage(bins[k]) : k \in 1..Len(bins)})

\* the addresses of the instruction words of all stubs
StubInstructionAddrs ==
    UNION {{AddN(stubs.addr, i * stubs.entry_size + 4 * j) :
                i \in 0..(stubs.size \div stubs.entry_size - 1),
                j \in 0..(stubs.entry_size \div 4 - 2)} :
           stubs \in {AppStubs, GccStubs, CxxStubs}}

\* an instruction no stub template has (mov r0, r0)
ForeignInstruction == <<\he1a0, 0>>

\* the images of a bundle one of whose stubs is not the vendor's code
ForeignStubImages ==
    {Write32(LoadedImage, a, ForeignInstruction) : a \in StubInstructionAddrs}

\* the ranges the loader reserved: the low 0x5000 bytes (null page and the
\* three images) and one slot in the middle of the heap
ReservedByLoader ==
    {[base |-> <<0, 0>>, size |-> 20480],
     [base |-> AddN(HeapBase, SlotSize), size |-> SlotSize]}

NoCall ==
    [op |-> "none", svc_pc |-> NoAddr, svc |-> -1, symbol |-> "",
     ret |-> "unit", ret_fn |-> "", ret_addr |-> NoAddr, msg |-> "",
     lazy |-> FALSE, inval |-> <<>>, trace |-> <<>>]

Init ==
    /\ image \in Images
    /\ mem \in IF image = "ok" THEN {LoadedImage} \cup ForeignStubImages
               ELSE {LoadedImage}
    /\ allocs = {}
    /\ reserved = ReservedByLoader
    /\ linked_host_functions = <<>>
    /\ return_to_host_routine = [is_some |-> FALSE, addr |-> NoAddr]
    /\ constants_to_link_later = <<>>
    /\ aborted = FALSE
    /\ call = NoCall
    /\ proc_addresses = {}
    /\ steps = 0

---------------------------------------------------------------------------
(* A handler runs on a record of the state it may change; `panic` says the *)
(* handler has panicked, after which its remaining statements do nothing.  *)

\* overflow_checks: the build makes u32 `+` panic on overflow (a debug
\* build) instead of wrapping (a release build)
Enter(overflow_checks) ==
    [overflow_checks |-> overflow_checks, mem |-> mem, allocs |-> allocs, linked |-> linked_host_functions,
     later |-> constants_to_link_later, rth |-> return_to_host_routine,
     panic |-> FALSE, ret |-> "unit", ret_fn |-> "", ret_addr |-> NoAddr,
     msg |-> "", lazy |-> FALSE, inval |-> <<>>, trace |-> <<>>]

Panic(s) == [s EXCEPT !.panic = TRUE, !.ret = "panic"]

\* panic!("Call to unimplemented function {}", symbol)
PanicUnimplemented(s, symbol) ==
    [s EXCEPT !.panic = TRUE, !.ret = "panic", !.msg = symbol]

\* the calls and writes of an operation, in the order it makes them
StTrace(s, event) ==
    IF s.panic THEN s ELSE [s EXCEPT !.trace = Append(@, event)]

\* mem.write(ptr, value) for a u32 or a pointer
StWrite32(s, a, w) ==
    IF s.panic THEN s
    ELSE IF AccessOk(a, 4) THEN [s EXCEPT !.mem = Write32(@, a, w)]
    ELSE Panic(s)

\* mem.alloc(size): the state after it, and the pointer it returns
StAlloc(s, size) ==
    IF s.panic THEN s
    ELSE IF AllocCanFit(s.allocs, reserved, size)
    THEN [s EXCEPT !.allocs =
            @ \cup {[base |-> AllocBase(s.allocs, reserved, size),
                     size |-> size]}]
    ELSE Panic(s)

AllocPtr(s, size) ==
    IF ~s.panic /\ AllocCanFit(s.allocs, reserved, size)
    THEN AllocBase(s.allocs, reserved, size)
    ELSE NoAddr

\* cpu.invalidate_cache_range(base, size)
StInvalidate(s, base, size) ==
    IF s.panic THEN s ELSE [s EXCEPT !.inval = Append(@, <<base, size>>)]

\* GuestFunction::from_addr_with_thumb_bit(addr).is_thumb()
is_thumb(addr) == addr[2] % 2 = 1

---------------------------------------------------------------------------
(* Dyld::setup_lazy_linking *)

ExpectedInstructions(entry_size) ==
    IF entry_size = 12 THEN SYMBOL_STUB_INSTRUCTIONS
    ELSE PIC_SYMBOL_STUB_INSTRUCTIONS

\* SetupStub that verifies the first instruction of the stub only
SetupStub_FirstWordOnly(s, ptr, entry_size) ==
    LET expected == ExpectedInstructions(entry_size)
        s1 == StWrite32(StTrace(s, <<"stub", ptr>>),
                        ptr, encode_a32_svc(SVC_LAZY_LINK))
        s2 == StWrite32(s1, PtrAdd(ptr, 1), encode_a32_ret)
    IN  IF s.panic THEN s
        ELSE IF Read32(s.mem, ptr) # expected[1] THEN Panic(s)
        ELSE IF entry_size = 16
        THEN StWrite32(s2, PtrAdd(ptr, 2), encode_a32_trap)
        ELSE s2

\* one iteration of the loop over the stubs: verify, then rewrite
SetupStub(s, ptr, entry_size) ==
    LET expected == ExpectedInstructions(entry_size)
        matches  == \A j \in 1..Len(expected) :
                        /\ PtrAddOk(ptr, j - 1)
                        /\ AccessOk(PtrAdd(ptr, j - 1), 4)
                        /\ Read32(s.mem, PtrAdd(ptr, j - 1)) = expected[j]
        s1 == StWrite32(StTrace(s, <<"stub", ptr>>),
                        ptr, encode_a32_svc(SVC_LAZY_LINK))
        s2 == StWrite32(s1, PtrAdd(ptr, 1), encode_a32_ret)
    IN  IF s.panic THEN s
        ELSE IF ~matches THEN Panic(s)
        ELSE IF entry_size = 16
        THEN StWrite32(s2, PtrAdd(ptr, 2), encode_a32_trap)
        ELSE s2

RECURSIVE SetupStubs(_, _, _)
SetupStubs(s, stubs, i) ==
    IF s.panic \/ i >= stubs.size \div stubs.entry_size THEN s
    ELSE SetupStubs(SetupStub(s, AddN(stubs.addr, i * stubs.entry_size),
                              stubs.entry_size),
                    stubs, i + 1)

\* setup_lazy_linking that does not look at the remainder of the section size
setup_lazy_linking_NoSizeCheck(s, bin) ==
    IF s.panic \/ ~HasStubs(bin) THEN s
    ELSE LET stubs == StubSection(bin)
         IN  IF stubs.entry_size \notin {12, 16} THEN Panic(s)
             ELSE SetupStubs(s, stubs, 0)

setup_lazy_linking(s, bin) ==
    IF s.panic \/ ~HasStubs(bin) THEN s
    ELSE LET stubs == StubSection(bin)
         IN  IF stubs.entry_size \notin {12, 16} THEN Panic(s)
             ELSE IF stubs.size % stubs.entry_size # 0 THEN Panic(s)
             ELSE SetupStubs(s, stubs, 0)

---------------------------------------------------------------------------
(* Dyld::do_non_lazy_linking *)

\* name.strip_prefix("_OBJC_CLASS_$_"), name.strip_prefix("_OBJC_METACLASS_$_")
\* and the test for the constant string class reference
RelocationKind(name) ==
    CASE name = "_OBJC_CLASS_$_NSObject" -> "class"
      [] name = "_OBJC_METACLASS_$_NSObject" -> "metaclass"
      [] name = "___CFConstantStringClassReference" -> "cfstring"
      [] OTHER -> "other"

\* the pointer the object runtime returns for a relocation: objc.link_class
\* and ns_string::handle_constant_string
RuntimePointer(kind) ==
    CASE kind = "class" -> <<0, \h6000>>
      [] kind = "metaclass" -> <<0, \h6040>>
      [] OTHER -> <<0, \h6080>>

RECURSIVE LinkRelocations(_, _, _)
LinkRelocations(s, relocs, i) ==
    IF s.panic \/ i > Len(relocs) THEN s
    ELSE LET ptr_ptr == relocs[i][1]
             kind    == RelocationKind(relocs[i][2])
         IN  IF kind = "other"
             THEN LinkRelocations(StTrace(s, <<"warning", ptr_ptr>>),
                                  relocs, i + 1)
             ELSE LinkRelocations(
                      StWrite32(StTrace(s, <<"relocation", ptr_ptr>>),
                                ptr_ptr, RuntimePointer(kind)),
                      relocs, i + 1)

\* the first binary of the list that exports the symbol, 0 if none does
FirstExporter(bs, symbol) ==
    LET hits == {k \in 1..Len(bs) : Exports(bs[k], symbol)}
    IN  IF hits = {} THEN 0 ELSE CHOOSE k \in hits : \A j \in hits : k <= j

\* LinkNonLazyPtr that looks in the host constants before the exported
\* symbols
LinkNonLazyPtr_ConstantsFirst(s, ptrs, i, bs) ==
    LET symbol   == ptrs.indirect_undef_symbols[i + 1]
        ptr_ptr  == AddN(ptrs.addr, i * ptrs.entry_size)
        exporter == FirstExporter(bs, symbol)
        template == search_lists(CONSTANT_LISTS, symbol)
    IN  IF s.panic \/ symbol = NoSym THEN s
        ELSE IF template.found
        THEN [s EXCEPT !.later = Append(@, <<ptr_ptr, template.value>>),
                       !.trace = Append(@, <<"later", ptr_ptr>>)]
        ELSE IF exporter # 0
        THEN StWrite32(StTrace(s, <<"nl_symbol_ptr", ptr_ptr>>),
                       ptr_ptr, ExportAddr(bs[exporter], symbol))
        ELSE StTrace(s, <<"warning", ptr_ptr>>)

\* one iteration of 'ptr_loop
LinkNonLazyPtr(s, ptrs, i, bs) ==
    LET symbol   == ptrs.indirect_undef_symbols[i + 1]
        ptr_ptr  == AddN(ptrs.addr, i * ptrs.entry_size)
        exporter == FirstExporter(bs, symbol)
        template == search_lists(CONSTANT_LISTS, symbol)
    IN  IF s.panic \/ symbol = NoSym THEN s
        ELSE IF exporter # 0
        THEN StWrite32(StTrace(s, <<"nl_symbol_ptr", ptr_ptr>>),
                       ptr_ptr, ExportAddr(bs[exporter], symbol))
        ELSE IF template.found
        THEN [s EXCEPT !.later = Append(@, <<ptr_ptr, template.value>>),
                       !.trace = Append(@, <<"later", ptr_ptr>>)]
        ELSE StTrace(s, <<"warning", ptr_ptr>>)

RECURSIVE LinkNonLazyPtrs(_, _, _, _)
LinkNonLazyPtrs(s, ptrs, i, bs) ==
    IF s.panic \/ i >= ptrs.size \div ptrs.entry_size THEN s
    ELSE LinkNonLazyPtrs(LinkNonLazyPtr(s, ptrs, i, bs), ptrs, i + 1, bs)

\* do_non_lazy_linking that leaves the loop over the relocations at the
\* first one it does not handle
do_non_lazy_linking_Break(s, bin, bs) ==
    LET relocs  == bin.external_relocations
        unknown == {i \in 1..Len(relocs) : RelocationKind(relocs[i][2]) = "other"}
        handled == IF unknown = {} THEN relocs
                   ELSE SubSeq(relocs, 1,
                               CHOOSE i \in unknown : \A j \in unknown : i <= j)
        s1 == LinkRelocations(s, handled, 1)
    IN  IF s1.panic \/ ~HasSection(bin, "__nl_symbol_ptr") THEN s1
        ELSE LinkNonLazyPtrs(s1, get_section(bin, "__nl_symbol_ptr"), 0, bs)

do_non_lazy_linking(s, bin, bs) ==
    LET s1 == LinkRelocations(s, bin.external_relocations, 1)
    IN  IF s1.panic \/ ~HasSection(bin, "__nl_symbol_ptr") THEN s1
        ELSE LET ptrs == get_section(bin, "__nl_symbol_ptr")
             IN  IF ptrs.entry_size # 4 \/ ptrs.size % ptrs.entry_size # 0
                 THEN Panic(s1)
                 ELSE LinkNonLazyPtrs(s1, ptrs, 0, bs)

---------------------------------------------------------------------------
(* Dyld::do_initial_linking *)

\* the loop over the binaries
RECURSIVE LinkBins(_, _, _)
LinkBins(s, bs, k) ==
    IF s.panic \/ k > Len(bs) THEN s
    ELSE LET s1 == setup_lazy_linking(
                       StTrace(s, <<"setup_lazy_linking", bs[k].name>>), bs[k])
             s2 == do_non_lazy_linking(
                       StTrace(s1, <<"do_non_lazy_linking", bs[k].name>>),
                       bs[k], bs)
         IN  LinkBins(s2, bs, k + 1)

\* do_initial_linking that registers the classes and categories before it
\* links the binaries
do_initial_linking_ClassesFirst(s, bs) ==
    IF s.rth.is_some THEN Panic(s)
    ELSE LET ptr == AllocPtr(s, 8)
             s1  == StAlloc(s, 8)
             s2  == StWrite32(s1, ptr, encode_a32_svc(SVC_RETURN_TO_HOST))
             s3  == StWrite32(s2, PtrAdd(ptr, 1), encode_a32_trap)
             s4  == IF s3.panic THEN s3
                    ELSE [s3 EXCEPT !.rth = [is_some |-> TRUE, addr |-> ptr]]
             s5  == StTrace(StTrace(s4, <<"register_bin_selectors", bs[1].name>>),
                            <<"register_host_selectors", "">>)
             s6  == StTrace(StTrace(s5, <<"register_bin_classes", bs[1].name>>),
                            <<"register_bin_categories", bs[1].name>>)
         IN  LinkBins(s6, bs, 1)

\* do_initial_linking without the assertion that the routine does not exist
do_initial_linking_NoGuard(s, bs) ==
    LET ptr == AllocPtr(s, 8)
        s1  == StAlloc(s, 8)
        s2  == StWrite32(s1, ptr, encode_a32_svc(SVC_RETURN_TO_HOST))
        s3  == StWrite32(s2, PtrAdd(ptr, 1), encode_a32_trap)
        s4  == IF s3.panic THEN s3
               ELSE IF is_thumb(ptr) THEN Panic(s3)
               ELSE [s3 EXCEPT !.rth = [is_some |-> TRUE, addr |-> ptr]]
        s5  == StTrace(StTrace(s4, <<"register_bin_selectors", bs[1].name>>),
                       <<"register_host_selectors", "">>)
        s6  == LinkBins(s5, bs, 1)
    IN  StTrace(StTrace(s6, <<"register_bin_classes", bs[1].name>>),
                <<"register_bin_categories", bs[1].name>>)

do_initial_linking(s, bs) ==
    IF s.rth.is_some THEN Panic(s)
    ELSE LET ptr == AllocPtr(s, 8)
             s1  == StAlloc(s, 8)
             s2  == StWrite32(s1, ptr, encode_a32_svc(SVC_RETURN_TO_HOST))
             s3  == StWrite32(s2, PtrAdd(ptr, 1), encode_a32_trap)
             s4  == IF s3.panic THEN s3
                    ELSE IF is_thumb(ptr) THEN Panic(s3)
                    ELSE [s3 EXCEPT !.rth = [is_some |-> TRUE, addr |-> ptr]]
             s5  == StTrace(StTrace(s4, <<"register_bin_selectors", bs[1].name>>),
                            <<"register_host_selectors", "">>)
             s6  == LinkBins(s5, bs, 1)
         IN  StTrace(StTrace(s6, <<"register_bin_classes", bs[1].name>>),
                     <<"register_bin_categories", bs[1].name>>)

\* what an operation leaves behind in the linker and in guest memory
Leaving(s, op, svc_pc, svc, symbol) ==
    /\ mem' = s.mem
    /\ allocs' = s.allocs
    /\ linked_host_functions' = s.linked
    /\ constants_to_link_later' = s.later
    /\ return_to_host_routine' = s.rth
    /\ aborted' = s.panic
    /\ call' = [op |-> op, svc_pc |-> svc_pc, svc |-> svc, symbol |-> symbol,
                ret |-> s.ret, ret_fn |-> s.ret_fn, ret_addr |-> s.ret_addr,
                msg |-> s.msg, lazy |-> s.lazy, inval |-> s.inval,
                trace |-> s.trace]

\* what an operation leaves behind
Leave(s, op, svc_pc, svc, symbol) ==
    /\ Leaving(s, op, svc_pc, svc, symbol)
    /\ UNCHANGED <<reserved, image, steps>>

\* Dyld::return_to_host_routine: self.return_to_host_routine.unwrap()
return_to_host_routine_fn(s) ==
    IF s.rth.is_some THEN [s EXCEPT !.ret = "Ok", !.ret_addr = s.rth.addr]
    ELSE Panic(s)

ReturnToHostRoutine ==
    /\ ~aborted
    /\ \E s \in {return_to_host_routine_fn(Enter(FALSE))} :
            Leave(s, "return_to_host_routine", NoAddr, -1, "")
    /\ UNCHANGED proc_addresses

DoInitialLinking ==
    /\ ~aborted
    /\ \E s \in {do_initial_linking(Enter(FALSE), LoadedBins(image))} :
            Leave(s, "do_initial_linking", NoAddr, -1, "")
    /\ UNCHANGED proc_addresses

---------------------------------------------------------------------------
(* Dyld::do_lazy_link *)

\* the binaries of the list whose stub section contains svc_pc
find_stubs(bs, svc_pc) ==
    {k \in 1..Len(bs) :
        /\ HasStubs(bs[k])
        /\ InRange(svc_pc, StubSection(bs[k]).addr, StubSection(bs[k]).size)}

\* the binaries of the app bundle whose stub section contains svc_pc
StubOwners(svc_pc) == find_stubs(bins, svc_pc)

\* NextSvc that leaves one ID out before the one it allocates
NextSvc_SkipOne(linked) == Len(linked) + SVC_LINKED_FUNCTIONS_BASE + 1

\* the SVC ID allocated for the next host function
NextSvc(linked) == Len(linked) + SVC_LINKED_FUNCTIONS_BASE

\* HostLink that links the stub but hands no function back to the caller
HostLink_NoResult(s, svc_pc, f) ==
    LET svc == Len(s.linked) + SVC_LINKED_FUNCTIONS_BASE
        s1  == [s EXCEPT !.linked = Append(@, f)]
        s2  == StWrite32(s1, svc_pc, encode_a32_svc(svc))
        s3  == StInvalidate(s2, svc_pc, 4)
    IN  IF s3.panic THEN s3 ELSE [s3 EXCEPT !.ret = "None"]

\* HostLink that reuses the SVC ID of a function it has linked before
HostLink_Dedup(s, svc_pc, f) ==
    LET known == {k \in 1..Len(s.linked) : s.linked[k] = f}
        svc == IF known = {} THEN Len(s.linked) + SVC_LINKED_FUNCTIONS_BASE
               ELSE (CHOOSE k \in known : TRUE) - 1 + SVC_LINKED_FUNCTIONS_BASE
        s1  == IF known = {} THEN [s EXCEPT !.linked = Append(@, f)] ELSE s
        s2  == StWrite32(s1, svc_pc, encode_a32_svc(svc))
        s3  == StInvalidate(s2, svc_pc, 4)
    IN  IF s3.panic THEN s3 ELSE [s3 EXCEPT !.ret = "Some", !.ret_fn = f]

\* HostLink that also puts traps behind the return instruction
HostLink_TrapsBehind(s, svc_pc, f) ==
    LET svc == Len(s.linked) + SVC_LINKED_FUNCTIONS_BASE
        s1  == [s EXCEPT !.linked = Append(@, f)]
        s2  == StWrite32(s1, svc_pc, encode_a32_svc(svc))
        s3  == StWrite32(s2, AddN(svc_pc, 8), encode_a32_trap)
        s4  == StWrite32(s3, AddN(svc_pc, 12), encode_a32_trap)
        s5  == StInvalidate(s4, svc_pc, 4)
    IN  IF s5.panic THEN s5 ELSE [s5 EXCEPT !.ret = "Some", !.ret_fn = f]

\* the branch taken when the symbol is a host function f
HostLink(s, svc_pc, f) ==
    LET svc == NextSvc(s.linked)
        s1  == [s EXCEPT !.linked = Append(@, f)]
        s2  == IF SvcImmOk(svc) THEN StWrite32(s1, svc_pc, encode_a32_svc(svc))
               ELSE Panic(s1)
        s3  == IF s2.panic THEN s2
               ELSE IF /\ PtrAddOk(svc_pc, 1)
                       /\ AccessOk(PtrAdd(svc_pc, 1), 4)
                       /\ Read32(s2.mem, PtrAdd(svc_pc, 1)) = encode_a32_ret
               THEN s2
               ELSE Panic(s2)
        s4  == StInvalidate(s3, svc_pc, 4)
    IN  IF s4.panic THEN s4 ELSE [s4 EXCEPT !.ret = "Some", !.ret_fn = f]

\* LaSymbolPtr that takes the data word of every stub for a PC-relative offset
LaSymbolPtr_Relative(m, overflow_checks, entry_size, svc_pc, instruction_count) ==
    LET data == Read32(m, PtrAdd(svc_pc, instruction_count))
    IN  [ok |-> TRUE, addr |-> AddN(Add32(svc_pc, data), 8)]

\* the address of the __la_symbol_ptr of the stub at svc_pc, read from the
\* word after its instructions: [ok, addr]
LaSymbolPtr(m, overflow_checks, entry_size, svc_pc, instruction_count) ==
    LET data == Read32(m, PtrAdd(svc_pc, instruction_count))
    IN  IF entry_size = 12
        THEN [ok |-> TRUE, addr |-> data]
        ELSE [ok |-> ~(overflow_checks /\
                        (\/ Add32Overflows(svc_pc, data)
                         \/ AddNOverflows(Add32(svc_pc, data), 8))),
              addr |-> AddN(Add32(svc_pc, data), 8)]

RECURSIVE RestoreStub(_, _, _, _)
RestoreStub(s, svc_pc, instrs, i) ==
    IF s.panic \/ i > Len(instrs) THEN s
    ELSE IF ~PtrAddOk(svc_pc, i - 1) THEN Panic(s)
    ELSE RestoreStub(StWrite32(s, PtrAdd(svc_pc, i - 1), instrs[i]),
                     svc_pc, instrs, i + 1)

\* GuestLink that invalidates the first restored word only
GuestLink_InvalidateOneWord(s, entry_size, svc_pc, addr) ==
    LET instrs == ExpectedInstructions(entry_size)
        s1 == RestoreStub(s, svc_pc, instrs, 1)
        s2 == StInvalidate(s1, svc_pc, 4)
        la == LaSymbolPtr(s2.mem, s2.overflow_checks, entry_size, svc_pc,
                          Len(instrs))
        s3 == IF s2.panic \/ ~la.ok THEN Panic(s2)
              ELSE StWrite32(s2, la.addr, addr)
    IN  IF s3.panic THEN s3 ELSE [s3 EXCEPT !.ret = "None"]

\* GuestLink that restores the instructions of the slot before the faulting one
GuestLink_PrevSlot(s, entry_size, svc_pc, addr) ==
    LET instrs == ExpectedInstructions(entry_size)
        prev   == Sub32(svc_pc, U32(entry_size))
        s1 == RestoreStub(s, prev, instrs, 1)
        s2 == StInvalidate(s1, prev, Len(instrs) * 4)
        la == LaSymbolPtr(s2.mem, s2.overflow_checks, entry_size, svc_pc,
                          Len(instrs))
        s3 == IF s2.panic \/ ~la.ok THEN Panic(s2)
              ELSE StWrite32(s2, la.addr, addr)
    IN  IF s3.panic THEN s3 ELSE [s3 EXCEPT !.ret = "None"]

\* GuestLink that patches the lazy pointer and leaves the stub as it is
GuestLink_NoRestore(s, entry_size, svc_pc, addr) ==
    LET count == Len(ExpectedInstructions(entry_size))
        la == LaSymbolPtr(s.mem, s.overflow_checks, entry_size, svc_pc, count)
        s3 == IF ~la.ok THEN Panic(s) ELSE StWrite32(s, la.addr, addr)
    IN  IF s3.panic THEN s3 ELSE [s3 EXCEPT !.ret = "None"]

\* the body of the loop over the dylibs, for the dylib that exports the
\* symbol at addr
GuestLink(s, entry_size, svc_pc, addr) ==
    IF entry_size \notin {12, 16} THEN Panic(s)
    ELSE LET instrs == ExpectedInstructions(entry_size)
             count  == Len(instrs)
             s1 == RestoreStub(s, svc_pc, instrs, 1)
             s2 == StInvalidate(s1, svc_pc, count * 4)
             readable == /\ PtrAddOk(svc_pc, count)
                         /\ AccessOk(PtrAdd(svc_pc, count), 4)
             la == LaSymbolPtr(s2.mem, s2.overflow_checks, entry_size, svc_pc, count)
             s3 == IF s2.panic THEN s2
                   ELSE IF ~readable THEN Panic(s2)
                   ELSE IF ~la.ok THEN Panic(s2)
                   ELSE StWrite32(s2, la.addr, addr)
         IN  IF s3.panic THEN s3 ELSE [s3 EXCEPT !.ret = "None"]

\* the binaries searched for an exported symbol: &bins[1..]
SearchedDylibs == 2..Len(bins)

\* the first searched binary that exports the symbol, 0 if none does
ExportingDylib(symbol) ==
    LET hits == {k \in SearchedDylibs : Exports(bins[k], symbol)}
    IN  IF hits = {} THEN 0 ELSE CHOOSE k \in hits : \A j \in hits : k <= j

\* LinkSymbol that looks in the exported-symbol tables before the registry
LinkSymbol_ExportsFirst(s, entry_size, svc_pc, symbol) ==
    LET f     == search_lists(FUNCTION_LISTS, symbol)
        dylib == ExportingDylib(symbol)
    IN  IF dylib # 0
        THEN GuestLink(s, entry_size, svc_pc, ExportAddr(bins[dylib], symbol))
        ELSE IF f.found THEN HostLink(s, svc_pc, f.value)
        ELSE PanicUnimplemented(s, symbol)

\* LinkSymbol that restores the stub's instructions before searching the
\* exported-symbol tables
LinkSymbol_RestoreFirst(s, entry_size, svc_pc, symbol) ==
    LET f     == search_lists(FUNCTION_LISTS, symbol)
        dylib == ExportingDylib(symbol)
        s1    == RestoreStub(s, svc_pc, ExpectedInstructions(entry_size), 1)
    IN  IF f.found THEN HostLink(s, svc_pc, f.value)
        ELSE IF dylib # 0
        THEN GuestLink(s1, entry_size, svc_pc, ExportAddr(bins[dylib], symbol))
        ELSE PanicUnimplemented(s1, symbol)

\* do_lazy_link once the stub's symbol is known
LinkSymbol(s, entry_size, svc_pc, symbol) ==
    LET f     == search_lists(FUNCTION_LISTS, symbol)
        dylib == ExportingDylib(symbol)
    IN  IF f.found THEN HostLink(s, svc_pc, f.value)
        ELSE IF dylib # 0
        THEN GuestLink(s, entry_size, svc_pc, ExportAddr(bins[dylib], symbol))
        ELSE PanicUnimplemented(s, symbol)

\* do_lazy_link that serves a trap anywhere inside a slot
do_lazy_link_AnyWordOfSlot(s0, svc_pc) ==
    LET s      == [s0 EXCEPT !.lazy = TRUE]
        bs     == LoadedBins(image)
        owners == find_stubs(bs, svc_pc)
    IN  IF owners = {} THEN Panic(s)
        ELSE LET stubs  == StubSection(bs[CHOOSE k \in owners :
                                                \A j \in owners : k <= j])
                 offset == Diff(svc_pc, stubs.addr)
                 idx    == offset \div stubs.entry_size
                 symbol == stubs.indirect_undef_symbols[idx + 1]
             IN  IF symbol = NoSym THEN Panic(s)
                 ELSE LinkSymbol(s, stubs.entry_size, svc_pc, symbol)

do_lazy_link(s0, svc_pc) ==
    LET s      == [s0 EXCEPT !.lazy = TRUE]
        bs     == LoadedBins(image)
        owners == find_stubs(bs, svc_pc)
    IN  IF owners = {} THEN Panic(s)
        ELSE LET stubs  == StubSection(bs[CHOOSE k \in owners :
                                                \A j \in owners : k <= j])
                 offset == Diff(svc_pc, stubs.addr)
                 idx    == offset \div stubs.entry_size
                 symbol == stubs.indirect_undef_symbols[idx + 1]
             IN  IF offset % stubs.entry_size # 0 THEN Panic(s)
                 ELSE IF symbol = NoSym THEN Panic(s)
                 ELSE LinkSymbol(s, stubs.entry_size, svc_pc, symbol)

---------------------------------------------------------------------------
(* Dyld::get_svc_handler *)

\* get_svc_handler that counts the linked functions from SVC_BREAKPOINT
get_svc_handler_WrongBase(s, svc_pc, svc) ==
    IF svc = SVC_LAZY_LINK THEN do_lazy_link(s, svc_pc)
    ELSE IF svc = SVC_RETURN_TO_HOST THEN Panic(s)
    ELSE IF svc = SVC_BREAKPOINT THEN Panic(s)
    ELSE IF svc - SVC_BREAKPOINT < Len(s.linked)
    THEN [s EXCEPT !.ret = "Some",
                   !.ret_fn = s.linked[svc - SVC_BREAKPOINT + 1]]
    ELSE Panic(s)

\* get_svc_handler that answers the breakpoint trap by resuming at svc_pc
get_svc_handler_BreakpointResumes(s, svc_pc, svc) ==
    IF svc = SVC_LAZY_LINK THEN do_lazy_link(s, svc_pc)
    ELSE IF svc = SVC_RETURN_TO_HOST THEN Panic(s)
    ELSE IF svc = SVC_BREAKPOINT THEN [s EXCEPT !.ret = "None"]
    ELSE IF svc - SVC_LINKED_FUNCTIONS_BASE < Len(s.linked)
    THEN [s EXCEPT !.ret = "Some",
                   !.ret_fn = s.linked[svc - SVC_LINKED_FUNCTIONS_BASE + 1]]
    ELSE Panic(s)

get_svc_handler(s, svc_pc, svc) ==
    IF svc = SVC_LAZY_LINK THEN do_lazy_link(s, svc_pc)
    ELSE IF svc = SVC_RETURN_TO_HOST THEN Panic(s)
    ELSE IF svc = SVC_BREAKPOINT THEN Panic(s)
    ELSE IF svc - SVC_LINKED_FUNCTIONS_BASE < Len(s.linked)
    THEN [s EXCEPT !.ret = "Some",
                   !.ret_fn = s.linked[svc - SVC_LINKED_FUNCTIONS_BASE + 1]]
    ELSE Panic(s)

---------------------------------------------------------------------------
(* Dyld::create_proc_address *)

\* create_proc_address that allocates the trampoline before it looks the
\* symbol up
create_proc_address_AllocFirst(s, symbol) ==
    LET f == search_lists(FUNCTION_LISTS, symbol)
        function_ptr == AllocPtr(s, 8)
        s1  == StAlloc(s, 8)
    IN  IF s1.panic THEN s1
        ELSE IF ~f.found THEN [s1 EXCEPT !.ret = "Err"]
        ELSE LET svc == NextSvc(s1.linked)
                 s2  == [s1 EXCEPT !.linked = Append(@, f.value)]
                 s3  == StWrite32(s2, function_ptr, encode_a32_svc(svc))
                 s4  == StWrite32(s3, AddN(function_ptr, 4), encode_a32_ret)
                 s5  == StInvalidate(s4, function_ptr, 4)
             IN  IF s5.panic THEN s5
                 ELSE [s5 EXCEPT !.ret = "Ok", !.ret_addr = function_ptr]

\* create_proc_address that leaves the function out of the registry
create_proc_address_NoPush(s, symbol) ==
    LET f == search_lists(FUNCTION_LISTS, symbol)
    IN  IF ~f.found THEN [s EXCEPT !.ret = "Err"]
        ELSE LET svc == NextSvc(s.linked)
                 function_ptr == AllocPtr(s, 8)
                 s2  == StAlloc(s, 8)
                 s3  == StWrite32(s2, function_ptr, encode_a32_svc(svc))
                 s4  == StWrite32(s3, AddN(function_ptr, 4), encode_a32_ret)
                 s5  == StInvalidate(s4, function_ptr, 4)
             IN  IF s5.panic THEN s5
                 ELSE [s5 EXCEPT !.ret = "Ok", !.ret_addr = function_ptr]

create_proc_address(s, symbol) ==
    LET f == search_lists(FUNCTION_LISTS, symbol)
    IN  IF ~f.found THEN [s EXCEPT !.ret = "Err"]
        ELSE LET svc == NextSvc(s.linked)
                 s1  == [s EXCEPT !.linked = Append(@, f.value)]
                 function_ptr == AllocPtr(s1, 8)
                 s2  == StAlloc(s1, 8)
                 s3  == IF s2.panic THEN s2
                        ELSE IF SvcImmOk(svc)
                        THEN StWrite32(s2, function_ptr, encode_a32_svc(svc))
                        ELSE Panic(s2)
                 s4  == IF s3.panic THEN s3
                        ELSE IF PtrAddOk(function_ptr, 1)
                        THEN StWrite32(s3, PtrAdd(function_ptr, 1), encode_a32_ret)
                        ELSE Panic(s3)
                 s5  == StInvalidate(s4, function_ptr, 4)
             IN  IF s5.panic THEN s5
                 ELSE [s5 EXCEPT !.ret = "Ok", !.ret_addr = function_ptr]

---------------------------------------------------------------------------
(* Dyld::do_late_linking *)

\* ns_string::get_static_str: the string object of a static string
StaticStr(str) == <<0, \h6100>>

\* the pointer a HostConstant::Custom routine returns
CustomConstant(arg) == <<0, \h6200>>

\* mem.alloc_and_write(value) of a pointer
StAllocAndWrite(s, value) == StWrite32(StAlloc(s, 4), AllocPtr(s, 4), value)

\* LinkConstant that takes a null-pointer constant for the null pointer
\* itself and allocates no cell for it
LinkConstant_NullWithoutCell(s, symbol_ptr_ptr, template) ==
    LET t == StTrace(s, <<"constant", symbol_ptr_ptr>>)
    IN  IF s.panic THEN s
        ELSE IF template.kind = "NSString"
        THEN StWrite32(StAllocAndWrite(t, StaticStr(template.arg)),
                       symbol_ptr_ptr, AllocPtr(s, 4))
        ELSE IF template.kind = "NullPtr"
        THEN StWrite32(t, symbol_ptr_ptr, NoAddr)
        ELSE StWrite32(t, symbol_ptr_ptr, CustomConstant(template.arg))

\* one iteration of the loop over to_link
LinkConstant(s, symbol_ptr_ptr, template) ==
    LET t == StTrace(s, <<"constant", symbol_ptr_ptr>>)
    IN  IF s.panic THEN s
        ELSE IF template.kind = "NSString"
        THEN StWrite32(StAllocAndWrite(t, StaticStr(template.arg)),
                       symbol_ptr_ptr, AllocPtr(s, 4))
        ELSE IF template.kind = "NullPtr"
        THEN StWrite32(StAllocAndWrite(t, NoAddr), symbol_ptr_ptr,
                       AllocPtr(s, 4))
        ELSE StWrite32(t, symbol_ptr_ptr, CustomConstant(template.arg))

RECURSIVE LinkConstants(_, _, _)
LinkConstants(s, to_link, i) ==
    IF s.panic \/ i > Len(to_link) THEN s
    ELSE LinkConstants(LinkConstant(s, to_link[i][1], to_link[i][2]),
                       to_link, i + 1)

\* do_late_linking that iterates over the queue without taking it
do_late_linking_KeepQueue(s) == LinkConstants(s, s.later, 1)

do_late_linking(s) == LinkConstants([s EXCEPT !.later = <<>>], s.later, 1)

---------------------------------------------------------------------------
(* The operations and the guest CPU. *)

\* the first word of every stub slot of every binary
StubAddrs ==
    UNION {{AddN(StubSection(bins[k]).addr, i * StubSection(bins[k]).entry_size) :
                i \in 0..(StubSection(bins[k]).size
                            \div StubSection(bins[k]).entry_size - 1)} :
           k \in {j \in 1..Len(bins) : HasStubs(bins[j])}}

\* an A32 SVC instruction and its immediate
IsSvc(w) == w[1] \div 256 = \hef

SvcImm(w) == (w[1] % 256) * Half + w[2]

\* the symbol names guest code asks create_proc_address for
ProcSymbols == {"_glEnable", "___udivsi3"}

\* The CPU executes the SVC instruction at pc (a stub or a trampoline) and
\* asks for its handler.  SVC_RETURN_TO_HOST is handled by the CPU loop.
Execute(pc) ==
    /\ ~aborted
    /\ IsSvc(Read32(mem, pc))
    /\ SvcImm(Read32(mem, pc)) # SVC_RETURN_TO_HOST
    /\ \E svc \in {SvcImm(Read32(mem, pc))} :
        \E overflow_checks \in BOOLEAN :
        \E s \in {get_svc_handler(Enter(overflow_checks), pc, svc)} :
            Leave(s, "get_svc_handler", pc, svc, "")
    /\ UNCHANGED proc_addresses

CreateProcAddress(symbol) ==
    /\ ~aborted
    /\ return_to_host_routine.is_some
    /\ Cardinality(proc_addresses) < MaxProcAddresses
    /\ \E s \in {create_proc_address(Enter(FALSE), symbol)} :
           /\ Leave(s, "create_proc_address", NoAddr, -1, symbol)
           /\ proc_addresses' =
                IF s.ret = "Ok"
                THEN proc_addresses \cup {[addr |-> s.ret_addr, symbol |-> symbol]}
                ELSE proc_addresses

DoLateLinking ==
    /\ ~aborted
    /\ return_to_host_routine.is_some
    /\ \E s \in {do_late_linking(Enter(FALSE))} :
            Leave(s, "do_late_linking", NoAddr, -1, "")
    /\ UNCHANGED proc_addresses

Next ==
    \/ DoInitialLinking
    \/ ReturnToHostRoutine
    \/ \E pc \in StubAddrs \cup {p.addr : p \in proc_addresses} : Execute(pc)
    \/ \E symbol \in ProcSymbols : CreateProcAddress(symbol)
    \/ DoLateLinking

Spec == Init /\ [][Next]_vars

---------------------------------------------------------------------------
(* The address space on its own: the operations of Mem (src/mem.rs) on a   *)
(* freshly constructed address space.                                      *)

\* the types SafeRead is implemented for
SafeReadTypes ==
    {"i8", "u8", "i16", "u16", "i32", "u32", "i64", "u64", "f32", "f64", "Ptr"}

\* guest_size_of::<T>()
guest_size_of(T) ==
    CASE T = "unit" -> 0
      [] T \in {"i8", "u8", "c_void"} -> 1
      [] T \in {"i16", "u16"} -> 2
      [] T \in {"i32", "u32", "f32", "Ptr"} -> 4
      [] T \in {"i64", "u64", "f64"} -> 8

\* u32::checked_mul by a small factor
checked_mul(n, k) ==
    LET lo == n[2] * k
        hi == n[1] * k + lo \div Half
    IN  [is_some |-> hi < Half, value |-> <<hi % Half, lo % Half>>]

\* u32::checked_add
checked_add(a, b) ==
    [is_some |-> ~Add32Overflows(a, b), value |-> Add32(a, b)]

\* u32::checked_sub
checked_sub(a, b) == [is_some |-> Le32(b, a), value |-> Sub32(a, b)]

I32Min == -2147483647 - 1

\* the bytes of a value of type T in host memory (little endian).  A value
\* is an integer for the types of up to 32 bits that have one, <<hi, lo>>
\* for u32 and Ptr, and the bit pattern in 16-bit parts, most significant
\* first, for f32 and the 64-bit types.
ToBytes(T, v) ==
    CASE T = "u8" -> <<v>>
      [] T = "i8" -> <<v % 256>>
      [] T = "u16" -> <<v % 256, v \div 256>>
      [] T = "i16" -> <<v % 256, (v % Half) \div 256>>
      [] T = "i32" ->
            LET lo == v % Half
                hi == ((v - lo) \div Half) % Half
            IN  Bytes32(<<hi, lo>>)
      [] T \in {"u32", "f32", "Ptr"} -> Bytes32(v)
      [] T \in {"i64", "u64", "f64"} ->
            Bytes32(<<v[3], v[4]>>) \o Bytes32(<<v[1], v[2]>>)

\* the value of type T that the bytes are
FromBytes(T, b) ==
    CASE T = "u8" -> b[1]
      [] T = "i8" -> IF b[1] >= 128 THEN b[1] - 256 ELSE b[1]
      [] T = "u16" -> b[1] + 256 * b[2]
      [] T = "i16" ->
            LET u == b[1] + 256 * b[2]
            IN  IF u >= 32768 THEN u - Half ELSE u
      [] T = "i32" ->
            LET lo == b[1] + 256 * b[2]
                hi == b[3] + 256 * b[4]
            IN  IF hi >= 32768 THEN (hi - Half) * Half + lo ELSE hi * Half + lo
      [] T \in {"u32", "f32", "Ptr"} ->
            <<b[3] + 256 * b[4], b[1] + 256 * b[2]>>
      [] T \in {"i64", "u64", "f64"} ->
            <<b[7] + 256 * b[8], b[5] + 256 * b[6],
              b[3] + 256 * b[4], b[1] + 256 * b[2]>>

\* the bytes of [a, a + n)
ReadBytes(m, a, n) == [i \in 1..n |-> ByteAt(m, AddN(a, i - 1))]

\* the slice [ptr..][..count] of the 2^32 bytes exists
SliceInBounds(ptr, count) ==
    LET end == checked_add(ptr, count)
    IN  end.is_some \/ end.value = Zero32

NoSlice == [panic |-> TRUE, base |-> NoAddr, len |-> Zero32]

\* bytes_at whose slice may not hold the last byte of the address space
bytes_at_ExcludeLastByte(ptr, count) ==
    IF Lt32(ptr, NULL_PAGE_SIZE) THEN NoSlice
    ELSE IF ~checked_add(ptr, count).is_some THEN NoSlice
    ELSE [panic |-> FALSE, base |-> ptr, len |-> count]

\* Mem::bytes_at: the slice, as its base and length, or a panic
bytes_at(ptr, count) ==
    IF Lt32(ptr, NULL_PAGE_SIZE) THEN NoSlice
    ELSE IF ~SliceInBounds(ptr, count) THEN NoSlice
    ELSE [panic |-> FALSE, base |-> ptr, len |-> count]

\* bytes_at_mut that lets an empty slice start in the null page
bytes_at_mut_EmptyAnywhere(ptr, count) ==
    IF Lt32(ptr, NULL_PAGE_SIZE) /\ count # Zero32 THEN NoSlice
    ELSE IF ~SliceInBounds(ptr, count) THEN NoSlice
    ELSE [panic |-> FALSE, base |-> ptr, len |-> count]

\* Mem::bytes_at_mut
bytes_at_mut(ptr, count) ==
    IF Lt32(ptr, NULL_PAGE_SIZE) THEN NoSlice
    ELSE IF ~SliceInBounds(ptr, count) THEN NoSlice
    ELSE [panic |-> FALSE, base |-> ptr, len |-> count]

\* Mem::ptr_at
ptr_at(T, ptr, count) ==
    LET size == checked_mul(count, guest_size_of(T))
    IN  IF ~size.is_some THEN NoSlice ELSE bytes_at(ptr, size.value)

\* Mem::ptr_at_mut
ptr_at_mut(T, ptr, count) ==
    LET size == checked_mul(count, guest_size_of(T))
    IN  IF ~size.is_some THEN NoSlice ELSE bytes_at_mut(ptr, size.value)

NoValue == "none"

\* Mem::read
read(m, T, ptr) ==
    LET p == ptr_at(T, ptr, U32(1))
    IN  IF p.panic THEN [panic |-> TRUE, value |-> NoValue]
        ELSE [panic |-> FALSE,
              value |-> FromBytes(T, ReadBytes(m, p.base, guest_size_of(T)))]

\* the address rounded down to a multiple of the size
AlignDown(a, size) == <<a[1], a[2] - (a[2] % size)>>

\* write that stores at the address rounded down to the type's alignment
write_Aligned(m, T, ptr, value) ==
    LET size  == guest_size_of(T)
        slice == bytes_at_mut(ptr, U32(size))
    IN  IF size <= 0 \/ slice.panic THEN [panic |-> TRUE, mem |-> m]
        ELSE [panic |-> FALSE,
              mem |-> WriteBytes(m, AlignDown(slice.base, size),
                                 ToBytes(T, value))]

\* Mem::write
write(m, T, ptr, value) ==
    LET size  == guest_size_of(T)
        slice == bytes_at_mut(ptr, U32(size))
    IN  IF size <= 0 \/ slice.panic THEN [panic |-> TRUE, mem |-> m]
        ELSE [panic |-> FALSE,
              mem |-> WriteBytes(m, slice.base, ToBytes(T, value))]

---------------------------------------------------------------------------
(* The accesses explored on the address space alone. *)

\* the last address at which a value of type T fits
TopFit(T) == Neg32(U32(guest_size_of(T)))

\* one address in the null page, the first address after it, an address
\* that is a multiple of no size but 1, the last address at which T fits,
\* and the address after that one
AccessAddrs(T) ==
    {<<0, \hfff>>, <<0, \h1000>>, <<0, \h1001>>, TopFit(T), AddN(TopFit(T), 1)}

\* a value of type T with the top bit set and all bytes different
HighValue(T) ==
    CASE T = "u8" -> 254
      [] T = "i8" -> -2
      [] T = "u16" -> 65244
      [] T = "i16" -> -292
      [] T = "i32" -> -19088744
      [] T \in {"u32", "f32", "Ptr"} -> <<\hfedc, \hba98>>
      [] T \in {"i64", "u64", "f64"} -> <<\hfedc, \hba98, \h7654, \h3210>>

\* a value of type T with the top bit clear and a zero byte
LowValue(T) ==
    CASE T \in {"u8", "i8"} -> 0
      [] T \in {"u16", "i16"} -> 18
      [] T = "i32" -> 1193046
      [] T \in {"u32", "f32", "Ptr"} -> <<\h12, \h3456>>
      [] T \in {"i64", "u64", "f64"} -> <<\h12, \h3456, 0, \h789a>>

SampleValues(T) == {HighValue(T), LowValue(T)}

\* the (pointer, byte count) pairs of bytes_at and bytes_at_mut
SliceInputs ==
    {<<0, 0>>, <<0, \hfff>>, <<0, \h1000>>, <<\hffff, \hffff>>}
        \X {<<0, 0>>, <<0, 1>>, <<0, 2>>, <<\hffff, \hf000>>, <<\hffff, \hf001>>}

\* the (type, pointer, element count) triples of ptr_at and ptr_at_mut
ArrayInputs ==
    {"u8", "Ptr", "f64"}
        \X {<<0, \hfff>>, <<0, \h1000>>, <<\h8000, \h1000>>}
        \X {<<0, 0>>, <<\h1fff, \hfe00>>, <<\h2000, 0>>, <<\h8000, 0>>}

\* what a step on the address space alone records of itself
MemCall(op, T, ptr, count, value, slice) ==
    [op |-> op, T |-> T, ptr |-> ptr, count |-> count, value |-> value,
     slice |-> slice]

\* what a step on the address space alone leaves alone
MemFrame ==
    UNCHANGED <<linked_host_functions, return_to_host_routine,
                constants_to_link_later, proc_addresses, image>>

MemStep == ~aborted /\ steps < MaxMemOps /\ steps' = steps + 1

MemRead ==
    /\ MemStep
    /\ \E T \in SafeReadTypes : \E ptr \in AccessAddrs(T) :
        LET r == read(mem, T, ptr)
        IN  /\ aborted' = r.panic
            /\ call' = MemCall("read", T, ptr, U32(1), r.value, NoSlice)
    /\ UNCHANGED <<mem, allocs, reserved>>
    /\ MemFrame

MemWrite ==
    /\ MemStep
    /\ \E T \in SafeReadTypes : \E ptr \in AccessAddrs(T) \cup {Zero32} :
       \E value \in SampleValues(T) :
        LET r == write(mem, T, ptr, value)
        IN  /\ aborted' = r.panic
            /\ mem' = r.mem
            /\ call' = MemCall("write", T, ptr, U32(1), value, NoSlice)
    /\ UNCHANGED <<allocs, reserved>>
    /\ MemFrame

MemBytesAt ==
    /\ MemStep
    /\ \E in \in SliceInputs :
        LET r == bytes_at(in[1], in[2])
        IN  /\ aborted' = r.panic
            /\ call' = MemCall("bytes_at", "u8", in[1], in[2], NoValue, r)
    /\ UNCHANGED <<mem, allocs, reserved>>
    /\ MemFrame

MemBytesAtMut ==
    /\ MemStep
    /\ \E in \in SliceInputs :
        LET r == bytes_at_mut(in[1], in[2])
        IN  /\ aborted' = r.panic
            /\ call' = MemCall("bytes_at_mut", "u8", in[1], in[2], NoValue, r)
    /\ UNCHANGED <<mem, allocs, reserved>>
    /\ MemFrame

MemPtrAt ==
    /\ MemStep
    /\ \E in \in ArrayInputs :
        LET r == ptr_at(in[1], in[2], in[3])
        IN  /\ aborted' = r.panic
            /\ call' = MemCall("ptr_at", in[1], in[2], in[3], NoValue, r)
    /\ UNCHANGED <<mem, allocs, reserved>>
    /\ MemFrame

MemPtrAtMut ==
    /\ MemStep
    /\ \E in \in ArrayInputs :
        LET r == ptr_at_mut(in[1], in[2], in[3])
        IN  /\ aborted' = r.panic
            /\ call' = MemCall("ptr_at_mut", in[1], in[2], in[3], NoValue, r)
    /\ UNCHANGED <<mem, allocs, reserved>>
    /\ MemFrame

\* Mem::new: the bytes are zeroed and nothing is allocated
MemInit ==
    /\ image = "ok"
    /\ mem = <<>>
    /\ allocs = {}
    /\ reserved = {}
    /\ linked_host_functions = <<>>
    /\ return_to_host_routine = [is_some |-> FALSE, addr |-> NoAddr]
    /\ constants_to_link_later = <<>>
    /\ aborted = FALSE
    /\ call = MemCall("none", "u8", NoAddr, Zero32, NoValue, NoSlice)
    /\ proc_addresses = {}
    /\ steps = 0

MemNext ==
    \/ MemRead
    \/ MemWrite
    \/ MemBytesAt
    \/ MemBytesAtMut
    \/ MemPtrAt
    \/ MemPtrAtMut

MemSpec == MemInit /\ [][MemNext]_vars

---------------------------------------------------------------------------
(* The allocator under the address space: Mem::alloc, Mem::free and        *)
(* Mem::reserve.                                                           *)

\* Allocator::alloc: the base of a new live chunk, or a panic
allocator_alloc(al, rs, size) ==
    IF AllocCanFit(al, rs, size)
    THEN [panic |-> FALSE, base |-> AllocBase(al, rs, size),
          allocs |-> al \cup {[base |-> AllocBase(al, rs, size),
                               size |-> size]}]
    ELSE [panic |-> TRUE, base |-> NoAddr, allocs |-> al]

\* Allocator::free: the size recorded for the live chunk at the base, or a
\* panic when no live chunk begins there
allocator_free(al, base) ==
    IF \E ch \in al : ch.base = base
    THEN LET ch == CHOOSE ch \in al : ch.base = base
         IN  [panic |-> FALSE, size |-> ch.size, allocs |-> al \ {ch}]
    ELSE [panic |-> TRUE, size |-> 0, allocs |-> al]

\* Allocator::reserve: the range joins the reserved chunks, or a panic when
\* a live chunk is already in it
allocator_reserve(al, rs, chunk) ==
    IF \E ch \in al : Overlaps(chunk.base, Occupied(chunk.size),
                               ch.base, Occupied(ch.size))
    THEN [panic |-> TRUE, reserved |-> rs]
    ELSE [panic |-> FALSE, reserved |-> rs \cup {chunk}]

\* alloc that does not look at the reserved chunks
alloc_IgnoreReserved(al, rs, size) ==
    LET r == allocator_alloc(al, {}, size)
    IN  [panic |-> r.panic, ptr |-> r.base, allocs |-> r.allocs]

\* alloc that does not look at the live chunks
alloc_IgnoreLive(al, rs, size) ==
    LET r == allocator_alloc({}, rs, size)
    IN  [panic |-> r.panic, ptr |-> r.base, allocs |-> al \cup r.allocs]

\* alloc that returns a null pointer when the allocator has no room
alloc_NullOnFailure(al, rs, size) ==
    LET r == allocator_alloc(al, rs, size)
    IN  [panic |-> FALSE, ptr |-> r.base, allocs |-> r.allocs]

\* Mem::alloc
alloc(al, rs, size) ==
    LET r == allocator_alloc(al, rs, size)
    IN  [panic |-> r.panic, ptr |-> r.base, allocs |-> r.allocs]

\* slice.fill(0) on the bytes [a, a + n)
FillZero(m, a, n) ==
    [x \in {y \in DOMAIN m : ~InRange(y, a, n)} |-> m[x]]

\* free that does not zero the bytes
free_NoFill(m, al, ptr) ==
    LET r     == allocator_free(al, ptr)
        slice == bytes_at_mut(ptr, U32(r.size))
    IN  IF r.panic THEN [panic |-> TRUE, mem |-> m, allocs |-> al, size |-> 0]
        ELSE [panic |-> slice.panic, mem |-> m, allocs |-> r.allocs,
              size |-> r.size]

\* free that zeroes the first bytes at the pointer before it asks the
\* allocator
free_FillFirst(m, al, ptr) ==
    LET r     == allocator_free(al, ptr)
        slice == bytes_at_mut(ptr, U32(r.size))
    IN  IF r.panic
        THEN [panic |-> TRUE, mem |-> FillZero(m, ptr, SlotSize),
              allocs |-> al, size |-> 0]
        ELSE IF slice.panic
        THEN [panic |-> TRUE, mem |-> m, allocs |-> r.allocs, size |-> r.size]
        ELSE [panic |-> FALSE, mem |-> FillZero(m, ptr, r.size),
              allocs |-> r.allocs, size |-> r.size]

\* Mem::free
free(m, al, ptr) ==
    LET r     == allocator_free(al, ptr)
        slice == bytes_at_mut(ptr, U32(r.size))
    IN  IF r.panic
        THEN [panic |-> TRUE, mem |-> m, allocs |-> al, size |-> 0]
        ELSE IF slice.panic
        THEN [panic |-> TRUE, mem |-> m, allocs |-> r.allocs, size |-> r.size]
        ELSE [panic |-> FALSE, mem |-> FillZero(m, slice.base, r.size),
              allocs |-> r.allocs, size |-> r.size]

\* Mem::reserve
reserve(al, rs, base, size) ==
    allocator_reserve(al, rs, [base |-> base, size |-> size])

\* the sizes asked of alloc: none, one byte, a byte more than a slot, and
\* more than the heap has
AllocSizes == {0, 1, SlotSize + 1, 1073741824}

\* the pointers given to free: null, the first byte of the heap, the byte
\* after it, and the bases of the second and third slots
FreePtrs ==
    {Zero32, HeapBase, AddN(HeapBase, 1), AddN(HeapBase, SlotSize),
     AddN(HeapBase, 2 * SlotSize)}

\* the ranges given to reserve
ReserveInputs == {<<AddN(HeapBase, SlotSize), SlotSize>>, <<HeapBase, 8>>}

\* the writes made between the calls of the allocator; the second one
\* crosses the end of a chunk of SlotSize + 1 bytes at the heap base
HeapWrites ==
    {<<"u8", HeapBase>>, <<"u32", AddN(HeapBase, SlotSize - 2)>>,
     <<"u8", AddN(HeapBase, 2 * SlotSize)>>}

HeapStep == ~aborted /\ steps < MaxHeapOps /\ steps' = steps + 1

HeapAlloc ==
    /\ HeapStep
    /\ \E size \in AllocSizes :
        LET r == alloc(allocs, reserved, size)
        IN  /\ aborted' = r.panic
            /\ allocs' = r.allocs
            /\ call' = MemCall("alloc", "c_void", r.ptr, U32(size), NoValue,
                               NoSlice)
    /\ UNCHANGED <<mem, reserved>>
    /\ MemFrame

HeapFree ==
    /\ HeapStep
    /\ \E ptr \in FreePtrs :
        LET r == free(mem, allocs, ptr)
        IN  /\ aborted' = r.panic
            /\ mem' = r.mem
            /\ allocs' = r.allocs
            /\ call' = MemCall("free", "c_void", ptr, U32(r.size), NoValue,
                               NoSlice)
    /\ UNCHANGED reserved
    /\ MemFrame

HeapReserve ==
    /\ HeapStep
    /\ \E in \in ReserveInputs :
        LET r == reserve(allocs, reserved, in[1], in[2])
        IN  /\ aborted' = r.panic
            /\ reserved' = r.reserved
            /\ call' = MemCall("reserve", "c_void", in[1], U32(in[2]), NoValue,
                               NoSlice)
    /\ UNCHANGED <<mem, allocs>>
    /\ MemFrame

HeapWrite ==
    /\ HeapStep
    /\ \E in \in HeapWrites :
        LET r == write(mem, in[1], in[2], HighValue(in[1]))
        IN  /\ aborted' = r.panic
            /\ mem' = r.mem
            /\ call' = MemCall("write", in[1], in[2], U32(1), HighValue(in[1]),
                               NoSlice)
    /\ UNCHANGED <<allocs, reserved>>
    /\ MemFrame

HeapNext ==
    \/ HeapAlloc
    \/ HeapFree
    \/ HeapReserve
    \/ HeapWrite

HeapSpec == MemInit /\ [][HeapNext]_vars

---------------------------------------------------------------------------
(* Guest pointers: Ptr<T, MUT> (src/mem.rs).  A pointer is its address and *)
(* the two type parameters.                                                *)

\* Ptr::from_bits for the type Ptr<T, MUT>
from_bits(T, MUT, bits) == [T |-> T, MUT |-> MUT, bits |-> bits]

\* Ptr::to_bits
to_bits(p) == p.bits

\* Ptr::null
null(T, MUT) == [T |-> T, MUT |-> MUT, bits |-> Zero32]

\* Ptr::is_null
is_null(p) == to_bits(p) = Zero32

\* cast that rounds the address down to a multiple of the new pointee's
\* size
cast_Aligned(p, U) ==
    from_bits(U, p.MUT,
              IF guest_size_of(U) > 1
              THEN AlignDown(to_bits(p), guest_size_of(U)) ELSE to_bits(p))

\* Ptr::cast::<U>
cast(p, U) == from_bits(U, p.MUT, to_bits(p))

\* ConstPtr::cast_mut
cast_mut(p) == from_bits(p.T, TRUE, to_bits(p))

\* MutPtr::cast_const
cast_const(p) == from_bits(p.T, FALSE, to_bits(p))

\* PartialEq::eq of two pointers of one type
eq(p, q) == p.bits = q.bits

NoPtr == [panic |-> TRUE, ptr |-> null("unit", FALSE)]

\* Ptr + n with a sum that wraps at 2^32
add_WrappingSum(p, other) ==
    LET product == checked_mul(other, guest_size_of(p.T))
    IN  IF ~product.is_some THEN NoPtr
        ELSE [panic |-> FALSE,
              ptr |-> from_bits(p.T, p.MUT, Add32(to_bits(p), product.value))]

\* Add<GuestUSize> for Ptr: self + other
add(p, other) ==
    LET product == checked_mul(other, guest_size_of(p.T))
        sum     == checked_add(to_bits(p), product.value)
    IN  IF ~product.is_some \/ ~sum.is_some THEN NoPtr
        ELSE [panic |-> FALSE, ptr |-> from_bits(p.T, p.MUT, sum.value)]

\* Sub<GuestUSize> for Ptr: self - other
sub(p, other) ==
    LET product    == checked_mul(other, guest_size_of(p.T))
        difference == checked_sub(to_bits(p), product.value)
    IN  IF ~product.is_some \/ ~difference.is_some THEN NoPtr
        ELSE [panic |-> FALSE, ptr |-> from_bits(p.T, p.MUT, difference.value)]

\* the pointee types, addresses and counts explored
Pointees == {"unit", "c_void", "u16", "Ptr", "f64"}

PtrBits ==
    {Zero32, <<0, 1>>, <<0, \h1001>>, <<\h7fff, \hffff>>, <<\h8000, 0>>,
     <<\hffff, \hfff8>>, <<\hffff, \hffff>>}

Counts ==
    {Zero32, <<0, 1>>, <<0, 2>>, <<\h1fff, \hffff>>, <<\h2000, 0>>,
     <<\h3fff, \hffff>>, <<\h4000, 0>>, <<\h7fff, \hffff>>, <<\h8000, 0>>,
     <<\hffff, \hffff>>}

Ptrs == {from_bits(T, MUT, bits) : T \in Pointees, MUT \in BOOLEAN, bits \in PtrBits}

\* the arguments of one operation on pointers, before it is made
PtrInputs ==
    {[op |-> "none", p |-> p, other |-> n, q |-> p, U |-> p.T,
      panic |-> FALSE, ret |-> p, equal |-> FALSE] : p \in Ptrs, n \in Counts}
    \cup
    {[op |-> "none", p |-> p, other |-> Zero32, q |-> p, U |-> U,
      panic |-> FALSE, ret |-> p, equal |-> FALSE] : p \in Ptrs, U \in Pointees}
    \cup
    {[op |-> "none", p |-> p, other |-> Zero32,
      q |-> from_bits(p.T, p.MUT, bits), U |-> p.T,
      panic |-> FALSE, ret |-> p, equal |-> FALSE] : p \in Ptrs, bits \in PtrBits}

\* what an operation on pointers leaves alone
PtrFrame ==
    UNCHANGED <<mem, allocs, reserved, linked_host_functions,
                return_to_host_routine, constants_to_link_later,
                proc_addresses, image, steps>>

\* an operation that returns a pointer or panics
PtrResult(op, r) ==
    /\ call.op = "none"
    /\ aborted' = r.panic
    /\ call' = [call EXCEPT !.op = op, !.panic = r.panic, !.ret = r.ptr]
    /\ PtrFrame

PointerAdd == PtrResult("add", add(call.p, call.other))

PointerSub == PtrResult("sub", sub(call.p, call.other))

PointerCast == PtrResult("cast", [panic |-> FALSE, ptr |-> cast(call.p, call.U)])

PointerCastMut ==
    /\ ~call.p.MUT
    /\ PtrResult("cast_mut", [panic |-> FALSE, ptr |-> cast_mut(call.p)])

PointerCastConst ==
    /\ call.p.MUT
    /\ PtrResult("cast_const", [panic |-> FALSE, ptr |-> cast_const(call.p)])

PointerEq ==
    /\ call.op = "none"
    /\ aborted' = FALSE
    /\ call' = [call EXCEPT !.op = "eq", !.equal = eq(call.p, call.q)]
    /\ PtrFrame

PtrInit ==
    /\ image = "ok"
    /\ mem = <<>>
    /\ allocs = {}
    /\ reserved = {}
    /\ linked_host_functions = <<>>
    /\ return_to_host_routine = [is_some |-> FALSE, addr |-> NoAddr]
    /\ constants_to_link_later = <<>>
    /\ aborted = FALSE
    /\ call \in PtrInputs
    /\ proc_addresses = {}
    /\ steps = 0

PtrNext ==
    \/ PointerAdd
    \/ PointerSub
    \/ PointerCast
    \/ PointerCastMut
    \/ PointerCastConst
    \/ PointerEq

PtrSpec == PtrInit /\ [][PtrNext]_vars

---------------------------------------------------------------------------
(* C strings in guest memory: Mem::alloc_and_write_cstr and Mem::cstr_at.  *)
(* A byte string is a sequence of bytes.                                   *)

\* the loop of cstr_at: `while self.read(ptr + len) != b'\0' { len += 1 }`
RECURSIVE cstr_len(_, _, _)
cstr_len(m, ptr, len) ==
    LET at   == add(ptr, len)
        byte == read(m, "u8", to_bits(at.ptr))
    IN  IF at.panic \/ byte.panic THEN [panic |-> TRUE, len |-> len]
        ELSE IF byte.value # 0 THEN cstr_len(m, ptr, AddN(len, 1))
        ELSE [panic |-> FALSE, len |-> len]

NoBytes == [panic |-> TRUE, bytes |-> <<>>]

\* Mem::cstr_at: the bytes of the slice it returns, or a panic
cstr_at(m, ptr) ==
    LET scan  == cstr_len(m, ptr, Zero32)
        slice == bytes_at(to_bits(ptr), scan.len)
    IN  IF scan.panic \/ slice.panic THEN NoBytes
        ELSE [panic |-> FALSE,
              bytes |-> ReadBytes(m, slice.base, Diff(slice.len, Zero32))]

\* alloc_and_write_cstr that trusts the new chunk to hold zeroes and writes
\* no terminator
alloc_and_write_cstr_NoTerminator(m, al, rs, str_bytes) ==
    LET len   == U32(Len(str_bytes))
        chunk == alloc(al, rs, Len(str_bytes) + 1)
        ptr   == cast(from_bits("c_void", TRUE, chunk.ptr), "u8")
        slice == bytes_at_mut(to_bits(ptr), len)
    IN  IF chunk.panic
        THEN [panic |-> TRUE, mem |-> m, allocs |-> al, ptr |-> ptr]
        ELSE IF slice.panic
        THEN [panic |-> TRUE, mem |-> m, allocs |-> chunk.allocs, ptr |-> ptr]
        ELSE [panic |-> FALSE, mem |-> WriteBytes(m, slice.base, str_bytes),
              allocs |-> chunk.allocs, ptr |-> ptr]

\* Mem::alloc_and_write_cstr
alloc_and_write_cstr(m, al, rs, str_bytes) ==
    LET len    == U32(Len(str_bytes))
        chunk  == alloc(al, rs, Len(str_bytes) + 1)
        ptr    == cast(from_bits("c_void", TRUE, chunk.ptr), "u8")
        slice  == bytes_at_mut(to_bits(ptr), len)
        copied == WriteBytes(m, slice.base, str_bytes)
        end    == add(ptr, len)
        ended  == write(copied, "u8", to_bits(end.ptr), 0)
    IN  IF chunk.panic
        THEN [panic |-> TRUE, mem |-> m, allocs |-> al, ptr |-> ptr]
        ELSE IF slice.panic
        THEN [panic |-> TRUE, mem |-> m, allocs |-> chunk.allocs, ptr |-> ptr]
        ELSE IF end.panic \/ ended.panic
        THEN [panic |-> TRUE, mem |-> copied, allocs |-> chunk.allocs,
              ptr |-> ptr]
        ELSE [panic |-> FALSE, mem |-> ended.mem, allocs |-> chunk.allocs,
              ptr |-> ptr]

\* the last byte of the address space
TopByte == <<\hffff, \hffff>>

\* the addresses written a byte at a time: the last two bytes of the address
\* space and the first bytes of the heap
CstrPokes ==
    {<<\hffff, \hfffe>>, TopByte, HeapBase, AddN(HeapBase, 1),
     AddN(HeapBase, 2)}

\* the byte strings given to alloc_and_write_cstr: empty, without a zero
\* byte, with an interior zero byte, and beginning with a zero byte
CstrInputs == {<<>>, <<97, 98>>, <<97, 0, 98>>, <<0, 97>>}

\* the pointers given to cstr_at: one in the null page, the first chunks of
\* the heap, a pointer into a chunk, and the last two bytes of the address
\* space
CstrPtrs ==
    {<<0, \hfff>>, HeapBase, AddN(HeapBase, 1), AddN(HeapBase, SlotSize),
     <<\hffff, \hfffe>>, TopByte}

\* what a step on C strings records of itself
CstrCall(op, ptr, str, panic, bytes) ==
    [op |-> op, ptr |-> ptr, str |-> str, panic |-> panic, bytes |-> bytes]

CstrStep == ~aborted /\ steps < MaxCstrOps /\ steps' = steps + 1

CstrWrite ==
    /\ CstrStep
    /\ \E a \in CstrPokes :
        LET r == write(mem, "u8", a, 65)
        IN  /\ aborted' = r.panic
            /\ mem' = r.mem
            /\ call' = CstrCall("write", a, <<65>>, r.panic, <<>>)
    /\ UNCHANGED <<allocs, reserved>>
    /\ MemFrame

CstrAllocAndWrite ==
    /\ CstrStep
    /\ \E str \in CstrInputs :
        LET r == alloc_and_write_cstr(mem, allocs, reserved, str)
        IN  /\ aborted' = r.panic
            /\ mem' = r.mem
            /\ allocs' = r.allocs
            /\ call' = CstrCall("alloc_and_write_cstr", to_bits(r.ptr), str,
                                r.panic, <<>>)
    /\ UNCHANGED reserved
    /\ MemFrame

CstrAt ==
    /\ CstrStep
    /\ \E a \in CstrPtrs : \E MUT \in BOOLEAN :
        LET r == cstr_at(mem, from_bits("u8", MUT, a))
        IN  /\ aborted' = r.panic
            /\ call' = CstrCall("cstr_at", a, <<>>, r.panic, r.bytes)
    /\ UNCHANGED <<mem, allocs, reserved>>
    /\ MemFrame

CstrInit ==
    /\ image = "ok"
    /\ mem = <<>>
    /\ allocs = {}
    /\ reserved = {}
    /\ linked_host_functions = <<>>
    /\ return_to_host_routine = [is_some |-> FALSE, addr |-> NoAddr]
    /\ constants_to_link_later = <<>>
    /\ aborted = FALSE
    /\ call = CstrCall("none", NoAddr, <<>>, FALSE, <<>>)
    /\ proc_addresses = {}
    /\ steps = 0

CstrNext ==
    \/ CstrWrite
    \/ CstrAllocAndWrite
    \/ CstrAt

CstrSpec == CstrInit /\ [][CstrNext]_vars

---------------------------------------------------------------------------
(* Breakpoints and traps: Dyld::set_breakpoint, and Dyld::get_svc_handler  *)
(* called with any trap address and any SVC ID.                            *)

\* encode_t32_svc: u16::from(imm) | 0xdf00 for an 8-bit imm
encode_t32_svc(imm) == \hdf00 + imm

\* GuestFunction::addr_without_thumb_bit
addr_without_thumb_bit(at) == <<at[1], at[2] - (at[2] % 2)>>

\* set_breakpoint that writes the A32 instruction whatever the Thumb bit is
set_breakpoint_AlwaysA32(s, at) ==
    LET w == write(s.mem, "u32", addr_without_thumb_bit(at),
                   encode_a32_svc(SVC_BREAKPOINT))
    IN  IF w.panic THEN Panic(s) ELSE [s EXCEPT !.mem = w.mem]

\* Dyld::set_breakpoint
set_breakpoint(s, at) ==
    LET addr == addr_without_thumb_bit(at)
        w    == IF is_thumb(at)
                THEN write(s.mem, "u16", addr, encode_t32_svc(SVC_BREAKPOINT))
                ELSE write(s.mem, "u32", addr, encode_a32_svc(SVC_BREAKPOINT))
    IN  IF ~is_thumb(at) /\ ~SvcImmOk(SVC_BREAKPOINT) THEN Panic(s)
        ELSE IF w.panic THEN Panic(s)
        ELSE [s EXCEPT !.mem = w.mem]

\* the addresses breakpoints are set at: the first app stub as A32 and as
\* Thumb code, an A32 instruction at an odd halfword inside the second app
\* stub, Thumb code in the null page and in the last halfword of the address
\* space, and an A32 instruction that would run past the last byte
BreakpointAddrs ==
    {AppStubs.addr, AddN(AppStubs.addr, 1), AddN(AppStubs.addr, 14),
     <<0, \hfff>>, <<\hffff, \hffff>>, <<\hffff, \hfffe>>}

\* the addresses of the lazy-link traps: the three app stubs (a host
\* function, a guest export, a symbol nobody has), the second word of the
\* first app stub, the first address after the app stubs, and a PIC stub of
\* libgcc_s that links to a guest export
LazyTrapAddrs ==
    {AppStubs.addr, AddN(AppStubs.addr, 12), AddN(AppStubs.addr, 24),
     AddN(AppStubs.addr, 4), AddN(AppStubs.addr, AppStubs.size),
     AddN(GccStubs.addr, 16)}

\* the (SVC ID, trap address) pairs get_svc_handler is called with
TrapInputs ==
    ({SVC_LAZY_LINK} \X LazyTrapAddrs)
        \cup ({1, 2, 3, 4, 5} \X {AppStubs.addr})

TrapStep == ~aborted /\ steps < MaxTrapOps /\ steps' = steps + 1

SetBreakpoint(at) ==
    /\ TrapStep
    /\ \E s \in {set_breakpoint(Enter(FALSE), at)} :
            Leaving(s, "set_breakpoint", at, -1, "")
    /\ UNCHANGED <<reserved, image, proc_addresses>>

GetSvcHandler(svc_pc, svc) ==
    /\ TrapStep
    /\ \E overflow_checks \in BOOLEAN :
       \E s \in {get_svc_handler(Enter(overflow_checks), svc_pc, svc)} :
            Leaving(s, "get_svc_handler", svc_pc, svc, "")
    /\ UNCHANGED <<reserved, image, proc_addresses>>

\* the app bundle is loaded, with or without a name for its second stub
TrapInit ==
    /\ image \in {"ok", "nameless_stub"}
    /\ mem = LoadedImage
    /\ allocs = {}
    /\ reserved = ReservedByLoader
    /\ linked_host_functions = <<>>
    /\ return_to_host_routine = [is_some |-> FALSE, addr |-> NoAddr]
    /\ constants_to_link_later = <<>>
    /\ aborted = FALSE
    /\ call = NoCall
    /\ proc_addresses = {}
    /\ steps = 0

TrapNext ==
    \/ DoInitialLinking
    \/ \E at \in BreakpointAddrs : SetBreakpoint(at)
    \/ \E in \in TrapInputs : GetSvcHandler(in[2], in[1])

TrapSpec == TrapInit /\ [][TrapNext]_vars

---------------------------------------------------------------------------
(* The instruction encoders on their own: encode_a32_svc, encode_t32_svc,  *)
(* encode_a32_ret and encode_a32_trap applied to an immediate.             *)

\* the immediates: the IDs the linker hands out first, the ends of the
\* 8-bit, 16-bit and 24-bit ranges, and larger ones
Immediates ==
    (0..19) \cup {254, 255, 256, 65535, 65536, 65537, 16777214, 16777215,
                  16777216, 16777217, 33554432, 2147483647}

\* the argument of one call of an encoder, before it is made
EncInputs ==
    {[op |-> "none", imm |-> imm, word |-> Zero32, halfword |-> 0] :
        imm \in Immediates}

\* a call of an encoder that returns a word
EncResult(op, panic, word) ==
    /\ call.op = "none"
    /\ aborted' = panic
    /\ call' = [call EXCEPT !.op = op, !.word = IF panic THEN Zero32 ELSE word]
    /\ PtrFrame

EncodeA32Svc ==
    EncResult("encode_a32_svc", ~SvcImmOk(call.imm), encode_a32_svc(call.imm))

\* imm is a u8
EncodeT32Svc ==
    /\ call.op = "none"
    /\ call.imm < 256
    /\ aborted' = FALSE
    /\ call' = [call EXCEPT !.op = "encode_t32_svc",
                            !.halfword = encode_t32_svc(call.imm)]
    /\ PtrFrame

EncodeA32Ret == EncResult("encode_a32_ret", FALSE, encode_a32_ret)

EncodeA32Trap == EncResult("encode_a32_trap", FALSE, encode_a32_trap)

EncInit ==
    /\ image = "ok"
    /\ mem = <<>>
    /\ allocs = {}
    /\ reserved = {}
    /\ linked_host_functions = <<>>
    /\ return_to_host_routine = [is_some |-> FALSE, addr |-> NoAddr]
    /\ constants_to_link_later = <<>>
    /\ aborted = FALSE
    /\ call \in EncInputs
    /\ proc_addresses = {}
    /\ steps = 0

EncNext ==
    \/ EncodeA32Svc
    \/ EncodeT32Svc
    \/ EncodeA32Ret
    \/ EncodeA32Trap

EncSpec == EncInit /\ [][EncNext]_vars

---------------------------------------------------------------------------
(* The forms of a stub slot, and the traps the properties speak of. *)

\* for every stub slot: the binary and the stub section it belongs to, its
\* entry size and the symbol it stands for
SlotInfo ==
    [S \in StubAddrs |->
        LET k     == CHOOSE k \in StubOwners(S) : \A j \in StubOwners(S) : k <= j
            stubs == StubSection(bins[k])
        IN  [binary |-> k,
             entry_size |-> stubs.entry_size,
             symbol |-> stubs.indirect_undef_symbols[
                            Diff(S, stubs.addr) \div stubs.entry_size + 1],
             host |-> search_lists(FUNCTION_LISTS,
                        stubs.indirect_undef_symbols[
                            Diff(S, stubs.addr) \div stubs.entry_size + 1])]]

EntrySizeAt(S) == SlotInfo[S].entry_size

SymbolAt(S) == SlotInfo[S].symbol

BinaryAt(S) == SlotInfo[S].binary

\* the form of the slot at S in memory m, read off its instruction words:
\* [SVC 0, return] is Unlinked, [SVC id, return] with id >=
\* SVC_LINKED_FUNCTIONS_BASE is LinkedToHost, the vendor's instructions for
\* the slot's entry size are LinkedToGuestExport
FormOf(m, S) ==
    LET w1 == Read32(m, S)
        w2 == Read32(m, AddN(S, 4))
        instrs == ExpectedInstructions(EntrySizeAt(S))
    IN  IF w2 = encode_a32_ret /\ w1 = encode_a32_svc(SVC_LAZY_LINK)
        THEN "Unlinked"
        ELSE IF /\ w2 = encode_a32_ret
                /\ IsSvc(w1)
                /\ SvcImm(w1) >= SVC_LINKED_FUNCTIONS_BASE
        THEN "LinkedToHost"
        ELSE IF /\ w1 = instrs[1]
                /\ w2 = instrs[2]
                /\ Len(instrs) = 3 => Read32(m, AddN(S, 8)) = instrs[3]
        THEN "LinkedToGuestExport"
        ELSE "other"

Unlinked(m, S) == FormOf(m, S) = "Unlinked"

LinkedToHost(m, S) == FormOf(m, S) = "LinkedToHost"

LinkedToGuestExport(m, S) == FormOf(m, S) = "LinkedToGuestExport"

\* the host function registered for the slot's symbol: [found, value]
HostFunctionAt(S) == SlotInfo[S].host

\* this step is get_svc_handler answering the trap of the instruction at S
TrapAt(S) == call'.op = "get_svc_handler" /\ call'.svc_pc = S

\* this step is the lazy-link trap of the unlinked slot S
LazyTrapAt(S) == TrapAt(S) /\ Unlinked(mem, S)

\* the bytes of m and n agree outside the count bytes at a
SameOutside(m, n, a, count) ==
    \A x \in (DOMAIN m) \cup (DOMAIN n) :
        InRange(x, a, count) \/ ByteAt(m, x) = ByteAt(n, x)

---------------------------------------------------------------------------
(* C1 *)

\* C1: after initial linking a slot that has left the Unlinked form never
\* returns to it, a slot that is LinkedToHost stays LinkedToHost and a slot
\* that is LinkedToGuestExport stays LinkedToGuestExport, so neither linked
\* form ever turns into the other (a step that leaves guest memory as it
\* was leaves every form as it was).
C1_LinkedFormsArePermanent ==
    [][mem' # mem =>
        \A S \in StubAddrs :
            LET before == FormOf(mem, S)
                after  == FormOf(mem', S)
            IN  /\ (return_to_host_routine.is_some /\ before # "Unlinked")
                        => after # "Unlinked"
                /\ before = "LinkedToHost" => after = "LinkedToHost"
                /\ (/\ return_to_host_routine.is_some
                    /\ before = "LinkedToGuestExport")
                        => after = "LinkedToGuestExport"]_vars

\* slots of both linked forms exist beside a slot still unlinked, and
\* operations went on after they were linked
C1_Witness ==
    /\ call.op = "do_late_linking"
    /\ \E S, T, U \in StubAddrs :
        /\ LinkedToHost(mem, S)
        /\ LinkedToGuestExport(mem, T)
        /\ Unlinked(mem, U)
        /\ BinaryAt(S) = BinaryAt(T)

---------------------------------------------------------------------------
(* C2 *)

\* C2: the lazy-link trap of an unlinked slot whose symbol is host function
\* X returns normally with the slot's first word an A32 SVC whose ID is at
\* least SVC_LINKED_FUNCTIONS_BASE and was bound to no function before the
\* trap, with the second word still the return instruction, and hands X
\* back to the caller.
C2_HostLinkWritesFreshSvc ==
    [][\A S \in StubAddrs :
        (LazyTrapAt(S) /\ HostFunctionAt(S).found) =>
            /\ ~aborted'
            /\ IsSvc(Read32(mem', S))
            /\ Read32(mem', S) = encode_a32_svc(SvcImm(Read32(mem', S)))
            /\ SvcImm(Read32(mem', S)) >= SVC_LINKED_FUNCTIONS_BASE
            /\ SvcImm(Read32(mem', S)) - SVC_LINKED_FUNCTIONS_BASE
                    >= Len(linked_host_functions)
            /\ Read32(mem', AddN(S, 4)) = encode_a32_ret
            /\ call'.ret = "Some"
            /\ call'.ret_fn = HostFunctionAt(S).value]_vars

\* a lazy-link trap has just linked a slot to a host function while other
\* IDs were already bound
C2_Witness ==
    /\ call.op = "get_svc_handler"
    /\ call.svc = SVC_LAZY_LINK
    /\ call.ret = "Some"
    /\ call.svc_pc \in StubAddrs
    /\ LinkedToHost(mem, call.svc_pc)
    /\ Len(linked_host_functions) >= 2

---------------------------------------------------------------------------
(* C3 *)

\* C3: every execution of a slot that is LinkedToHost for X traps with the
\* ID written in the slot, and get_svc_handler returns X for it without
\* entering the lazy linker and without changing the registry or guest
\* memory.
C3_LinkedStubDispatches ==
    [][\A S \in StubAddrs :
        (TrapAt(S) /\ LinkedToHost(mem, S) /\ HostFunctionAt(S).found) =>
            /\ ~aborted'
            /\ call'.svc = SvcImm(Read32(mem, S))
            /\ call'.ret = "Some"
            /\ call'.ret_fn = HostFunctionAt(S).value
            /\ ~call'.lazy
            /\ linked_host_functions' = linked_host_functions
            /\ mem' = mem
            /\ allocs' = allocs]_vars

\* a linked slot has been executed after two more functions were bound
\* behind its ID
C3_Witness ==
    /\ call.op = "get_svc_handler"
    /\ call.svc >= SVC_LINKED_FUNCTIONS_BASE
    /\ call.svc_pc \in StubAddrs
    /\ call.ret = "Some"
    /\ Len(linked_host_functions) >= call.svc - SVC_LINKED_FUNCTIONS_BASE + 3

---------------------------------------------------------------------------
(* C4 *)

\* the slots of the plain and of the PIC form
PlainStubAddrs == {S \in StubAddrs : EntrySizeAt(S) = 12}

PicStubAddrs == {S \in StubAddrs : EntrySizeAt(S) = 16}

\* the slot's symbol is no host function and a searched binary exports it
GuestExported(S) ==
    ~HostFunctionAt(S).found /\ ExportingDylib(SymbolAt(S)) # 0

\* the address A the searched binary exports the slot's symbol at
ExportedAddrAt(S) == ExportAddr(bins[ExportingDylib(SymbolAt(S))], SymbolAt(S))

\* C4: the lazy-link trap of an unlinked plain slot whose symbol is no host
\* function but exported at A by a searched binary returns None with the
\* slot's two instruction words equal to the plain template, the third
\* word unchanged, and the word at the absolute address the third word
\* holds equal to A.
C4_PlainStubGuestLink ==
    [][\A S \in PlainStubAddrs :
        (LazyTrapAt(S) /\ GuestExported(S)) =>
            /\ ~aborted'
            /\ call'.ret = "None"
            /\ Read32(mem', S) = SYMBOL_STUB_INSTRUCTIONS[1]
            /\ Read32(mem', AddN(S, 4)) = SYMBOL_STUB_INSTRUCTIONS[2]
            /\ Read32(mem', AddN(S, 8)) = Read32(mem, AddN(S, 8))
            /\ Read32(mem', Read32(mem, AddN(S, 8))) = ExportedAddrAt(S)]_vars

\* a plain slot has just been linked to a guest export
C4_Witness ==
    /\ call.op = "get_svc_handler"
    /\ call.svc = SVC_LAZY_LINK
    /\ call.ret = "None"
    /\ call.svc_pc \in PlainStubAddrs
    /\ LinkedToGuestExport(mem, call.svc_pc)
    /\ Read32(mem, Read32(mem, AddN(call.svc_pc, 8))) = ExportedAddrAt(call.svc_pc)
---------------------------------------------------------------------------
(* C5 *)

\* the address the A32 instructions of the PIC template load the branch
\* target from: `ldr ip, [pc, #4]` at S reads the word at S + 12,
\* `add ip, pc, ip` at S + 4 adds S + 12 to it and `ldr pc, [ip]` loads
\* from the sum
PicBranchSlot(m, S) == AddN(Add32(S, Read32(m, AddN(S, 12))), 12)

\* C5: the lazy-link trap of an unlinked PIC slot whose symbol is no host
\* function but exported at A by a searched binary leaves, when it returns,
\* the slot's three instruction words equal to the PIC template and A in
\* the word at (S + 12 + offset) mod 2^32, where the restored stub loads
\* its branch target from.
C5_PicStubReachesExport ==
    [][\A S \in PicStubAddrs :
        (LazyTrapAt(S) /\ GuestExported(S) /\ ~aborted') =>
            /\ \A i \in 1..3 : Read32(mem', AddN(S, 4 * (i - 1)))
                                    = PIC_SYMBOL_STUB_INSTRUCTIONS[i]
            /\ Read32(mem', PicBranchSlot(mem', S)) = ExportedAddrAt(S)]_vars

---------------------------------------------------------------------------
(* C6 *)

\* some loaded binary exports the slot's symbol
ExportedAnywhere(S) == \E k \in 1..Len(bins) : Exports(bins[k], SymbolAt(S))

\* C6: the lazy-link trap of an unlinked slot whose symbol is both a host
\* function and exported by a loaded binary makes the slot LinkedToHost and
\* returns the host function; nothing but the slot's first word changes, so
\* no lazy pointer receives the export's address.
C6_HostRegistryFirst ==
    [][\A S \in StubAddrs :
        (LazyTrapAt(S) /\ HostFunctionAt(S).found /\ ExportedAnywhere(S)) =>
            /\ LinkedToHost(mem', S)
            /\ ~LinkedToGuestExport(mem', S)
            /\ call'.ret = "Some"
            /\ call'.ret_fn = HostFunctionAt(S).value
            /\ SameOutside(mem, mem', S, 4)]_vars

\* a slot whose symbol a searched binary exports has just been linked to
\* the host function of that name
C6_Witness ==
    /\ call.op = "get_svc_handler"
    /\ call.svc = SVC_LAZY_LINK
    /\ call.svc_pc \in StubAddrs
    /\ ExportingDylib(SymbolAt(call.svc_pc)) # 0
    /\ HostFunctionAt(call.svc_pc).found
    /\ LinkedToHost(mem, call.svc_pc)

---------------------------------------------------------------------------
(* C7 *)

\* a loaded binary other than the slot's own exports the slot's symbol
ExportedByAnother(S) ==
    \E k \in (1..Len(bins)) \ {BinaryAt(S)} : Exports(bins[k], SymbolAt(S))

\* C7: the lazy-link trap of an unlinked slot whose symbol is no host
\* function but exported by a loaded binary other than the slot's own, the
\* first binary of the list included, makes the slot LinkedToGuestExport
\* and does not abort for an unimplemented function.
C7_EveryOtherBinarySearched ==
    [][\A S \in StubAddrs :
        (LazyTrapAt(S) /\ ~HostFunctionAt(S).found /\ ExportedByAnother(S)) =>
            /\ LinkedToGuestExport(mem', S)
            /\ call'.msg = ""]_vars

---------------------------------------------------------------------------
(* C8 *)

\* C8: the lazy-link trap of an unlinked slot whose symbol is neither a
\* host function nor in a searched exported-symbol table aborts naming the
\* symbol; it returns nothing, binds no SVC ID and leaves the stub and the
\* rest of guest memory as they were.
C8_UnresolvedSymbolAborts ==
    [][\A S \in StubAddrs :
        (/\ LazyTrapAt(S)
         /\ ~HostFunctionAt(S).found
         /\ ExportingDylib(SymbolAt(S)) = 0) =>
            /\ aborted'
            /\ call'.ret = "panic"
            /\ call'.msg = SymbolAt(S)
            /\ linked_host_functions' = linked_host_functions
            /\ mem' = mem
            /\ allocs' = allocs
            /\ call'.inval = <<>>]_vars

\* the trap of a slot whose symbol nothing provides has aborted, after
\* other slots had been linked
C8_Witness ==
    /\ aborted
    /\ call.op = "get_svc_handler"
    /\ call.svc_pc \in StubAddrs
    /\ call.msg = SymbolAt(call.svc_pc)
    /\ ~ExportedAnywhere(call.svc_pc)
    /\ Unlinked(mem, call.svc_pc)
    /\ Len(linked_host_functions) >= 1

---------------------------------------------------------------------------
(* C9 *)

\* the SVC ID of the instruction at a
IdAt(m, a) == SvcImm(Read32(m, a))

\* the entry points bound to a host function: linked stubs and trampolines
HostEntryPoints(m, procs) ==
    {S \in StubAddrs : LinkedToHost(m, S)} \cup {p.addr : p \in procs}

\* every entry point has an ID of its own, below the next ID to assign
IdsDistinct(m, procs, linked) ==
    LET points == HostEntryPoints(m, procs)
        id     == [a \in points |-> IdAt(m, a)]
    IN  /\ \A a \in points :
            /\ id[a] >= SVC_LINKED_FUNCTIONS_BASE
            /\ id[a] < SVC_LINKED_FUNCTIONS_BASE + Len(linked)
        /\ Cardinality({id[a] : a \in points}) = Cardinality(points)

\* this step binds an ID: a host link of slot S, or create_proc_address
HostLinkStep(S) == LazyTrapAt(S) /\ HostFunctionAt(S).found /\ ~aborted'

ProcAddressStep == call'.op = "create_proc_address" /\ call'.ret = "Ok"

\* C9: the k-th SVC ID bound, by host links of stubs and by
\* create_proc_address alike, is SVC_LINKED_FUNCTIONS_BASE + k; the
\* registry only grows, by one function per bound ID in every operation
\* that returns, so no ID is bound twice or removed; every entry point has an ID of its own, two stubs of
\* the same host function included; and get_svc_handler returns for every
\* bound ID the function bound to it.
C9_IdsDenseAndPermanent ==
    [][/\ Len(linked_host_functions') >= Len(linked_host_functions)
       /\ SubSeq(linked_host_functions', 1, Len(linked_host_functions))
            = linked_host_functions
       /\ (linked_host_functions' # linked_host_functions /\ ~aborted')
            => ProcAddressStep \/ \E S \in StubAddrs : HostLinkStep(S)
       /\ \A S \in StubAddrs : HostLinkStep(S) =>
            /\ IdAt(mem', S)
                 = SVC_LINKED_FUNCTIONS_BASE + Len(linked_host_functions)
            /\ linked_host_functions'
                 = Append(linked_host_functions, HostFunctionAt(S).value)
       /\ ProcAddressStep =>
            /\ IdAt(mem', call'.ret_addr)
                 = SVC_LINKED_FUNCTIONS_BASE + Len(linked_host_functions)
            /\ linked_host_functions'
                 = Append(linked_host_functions,
                          search_lists(FUNCTION_LISTS, call'.symbol).value)
       /\ IdsDistinct(mem', proc_addresses', linked_host_functions')
       /\ (/\ call'.op = "get_svc_handler"
           /\ call'.svc >= SVC_LINKED_FUNCTIONS_BASE
           /\ call'.svc < SVC_LINKED_FUNCTIONS_BASE
                            + Len(linked_host_functions)) =>
            /\ call'.ret = "Some"
            /\ call'.ret_fn = linked_host_functions[
                    call'.svc - SVC_LINKED_FUNCTIONS_BASE + 1]]_vars

\* two stubs of the same host function and a trampoline hold three
\* different IDs, and the oldest of them has just been dispatched
C9_Witness ==
    /\ call.op = "get_svc_handler"
    /\ call.svc = SVC_LINKED_FUNCTIONS_BASE
    /\ call.ret = "Some"
    /\ proc_addresses # {}
    /\ \E S, T \in StubAddrs :
        /\ S # T
        /\ LinkedToHost(mem, S) /\ LinkedToHost(mem, T)
        /\ SymbolAt(S) = SymbolAt(T)
        /\ IdAt(mem, S) # IdAt(mem, T)

---------------------------------------------------------------------------
(* C10 *)

\* no live or reserved chunk touches the count bytes at a
Unused(al, rs, a, count) ==
    \A ch \in al \cup rs : ~Overlaps(a, count, ch.base, ch.size)

\* C10: a successful create_proc_address returns the first word of a
\* trampoline [SVC id, return] that lies in memory allocated by this call,
\* at an address and with an ID that no earlier trampoline has, and leaves
\* the earlier trampolines as they were; the IDs of all trampolines made
\* for one symbol dispatch to the host function of that symbol.
C10_ProcAddressesAreSeparate ==
    [][ProcAddressStep =>
        /\ Unused(allocs, reserved, call'.ret_addr, 8)
        /\ [base |-> call'.ret_addr, size |-> 8] \in allocs'
        /\ IsSvc(Read32(mem', call'.ret_addr))
        /\ Read32(mem', call'.ret_addr)
             = encode_a32_svc(IdAt(mem', call'.ret_addr))
        /\ IdAt(mem', call'.ret_addr) >= SVC_LINKED_FUNCTIONS_BASE
        /\ Read32(mem', AddN(call'.ret_addr, 4)) = encode_a32_ret
        /\ \A p \in proc_addresses :
            /\ p.addr # call'.ret_addr
            /\ IdAt(mem', p.addr) # IdAt(mem', call'.ret_addr)
            /\ Read32(mem', p.addr) = Read32(mem, p.addr)
            /\ Read32(mem', AddN(p.addr, 4)) = encode_a32_ret
        /\ \A p \in proc_addresses' :
            /\ IdAt(mem', p.addr) - SVC_LINKED_FUNCTIONS_BASE
                    < Len(linked_host_functions')
            /\ linked_host_functions'[
                    IdAt(mem', p.addr) - SVC_LINKED_FUNCTIONS_BASE + 1]
                 = search_lists(FUNCTION_LISTS, p.symbol).value]_vars

\* create_proc_address has returned for the second time for one symbol
C10_Witness ==
    /\ call.op = "create_proc_address"
    /\ call.ret = "Ok"
    /\ \E p, q \in proc_addresses :
        /\ p.symbol = q.symbol
        /\ p.addr # q.addr
        /\ q.addr = call.ret_addr
---------------------------------------------------------------------------
(* C11 *)

\* C11: create_proc_address called with a symbol that is no host function
\* returns the failure result and changes nothing: the registry, guest
\* memory, the allocator, the queue of deferred constants and the set of
\* trampolines stay as they were and no cache invalidation is requested,
\* also when a loaded binary exports the symbol.
C11_UnknownProcAddressFails ==
    [][(/\ call'.op = "create_proc_address"
        /\ ~search_lists(FUNCTION_LISTS, call'.symbol).found) =>
            /\ call'.ret = "Err"
            /\ ~aborted'
            /\ linked_host_functions' = linked_host_functions
            /\ mem' = mem
            /\ allocs' = allocs
            /\ reserved' = reserved
            /\ constants_to_link_later' = constants_to_link_later
            /\ return_to_host_routine' = return_to_host_routine
            /\ proc_addresses' = proc_addresses
            /\ call'.inval = <<>>]_vars

\* create_proc_address has failed for a symbol that a loaded binary exports,
\* with functions registered and constants still queued
C11_Witness ==
    /\ call.op = "create_proc_address"
    /\ call.ret = "Err"
    /\ \E k \in 1..Len(bins) : Exports(bins[k], call.symbol)
    /\ Len(linked_host_functions) >= 1
    /\ constants_to_link_later # <<>>
---------------------------------------------------------------------------
(* C12 *)

\* the addresses of the bytes of the instruction words of all stubs
StubCodeAddrs == {AddN(a, k) : a \in StubInstructionAddrs, k \in 0..3}

\* the bytes of code a lazy-link trap of slot S rewrites: the first word
\* for a host link, the template's instruction words for a guest link
PatchedBytes(S) ==
    IF HostFunctionAt(S).found THEN 4
    ELSE 4 * Len(ExpectedInstructions(EntrySizeAt(S)))

\* C12: a lazy-link trap that returns has requested exactly one instruction
\* cache invalidation, over [S, S + 4) when it linked the slot to a host
\* function and over [S, S + 4 * instruction count) (8 bytes plain, 12 bytes
\* PIC) when it linked it to a guest export, and every byte of stub code
\* the trap changed lies in that range.
C12_LazyLinkInvalidatesPatch ==
    [][\A S \in StubAddrs :
        (LazyTrapAt(S) /\ ~aborted') =>
            /\ call'.inval = << <<S, PatchedBytes(S)>> >>
            /\ PatchedBytes(S) =
                 (CASE call'.ret = "Some" -> 4
                    [] EntrySizeAt(S) = 12 -> 8
                    [] OTHER -> 12)
            /\ \A x \in StubCodeAddrs :
                 ByteAt(mem', x) # ByteAt(mem, x)
                    => InRange(x, S, PatchedBytes(S))]_vars

\* a guest link of a PIC stub has invalidated its twelve bytes, after a
\* plain stub had been linked to a guest export and one to a host function
C12_Witness ==
    /\ call.op = "get_svc_handler"
    /\ call.svc = SVC_LAZY_LINK
    /\ call.ret = "None"
    /\ call.svc_pc \in PicStubAddrs
    /\ call.inval = << <<call.svc_pc, 12>> >>
    /\ \E S, T \in PlainStubAddrs :
        LinkedToGuestExport(mem, S) /\ LinkedToHost(mem, T)
---------------------------------------------------------------------------
(* C13 *)

\* C13: a successful create_proc_address has requested exactly one
\* instruction cache invalidation, over the 8 bytes of the two-word
\* trampoline it wrote.
C13_TrampolineInvalidated ==
    [][ProcAddressStep =>
        /\ Read32(mem', call'.ret_addr) # Read32(mem, call'.ret_addr)
        /\ Read32(mem', AddN(call'.ret_addr, 4))
             # Read32(mem, AddN(call'.ret_addr, 4))
        /\ call'.inval = << <<call'.ret_addr, 8>> >>]_vars
---------------------------------------------------------------------------
(* C14 *)

\* the events of a trace that are calls made by do_initial_linking itself
IsCallEvent(e) ==
    e[1] \in {"register_bin_selectors", "register_host_selectors",
              "setup_lazy_linking", "do_non_lazy_linking",
              "register_bin_classes", "register_bin_categories"}

\* the events of eager linking: a relocation or pointer written, a constant
\* queued, an entry skipped with a warning
IsEagerEvent(e) == e[1] \in {"relocation", "nl_symbol_ptr", "later", "warning"}

\* the calls of an initial linking of the binaries bs that runs to its end
ExpectedCalls(bs) ==
    << <<"register_bin_selectors", bs[1].name>>,
       <<"register_host_selectors", "">> >>
    \o Flatten([k \in 1..Len(bs) |->
                    << <<"setup_lazy_linking", bs[k].name>>,
                       <<"do_non_lazy_linking", bs[k].name>> >>])
    \o << <<"register_bin_classes", bs[1].name>>,
          <<"register_bin_categories", bs[1].name>> >>

\* the call of do_initial_linking that event i of the trace is made in
CallAround(trace, i) ==
    LET before == {j \in 1..i : IsCallEvent(trace[j])}
    IN  IF before = {} THEN <<"none", "">>
        ELSE trace[CHOOSE j \in before : \A l \in before : l <= j]

\* the name of the binary that owns the relocation target or the non-lazy
\* pointer slot at address a
EagerOwner(bs, a) ==
    LET owners ==
          {k \in 1..Len(bs) :
              \/ \E i \in 1..Len(bs[k].external_relocations) :
                    bs[k].external_relocations[i][1] = a
              \/ /\ HasSection(bs[k], "__nl_symbol_ptr")
                 /\ InRange(a, get_section(bs[k], "__nl_symbol_ptr").addr,
                            get_section(bs[k], "__nl_symbol_ptr").size)}
    IN  IF owners = {} THEN "" ELSE bs[CHOOSE k \in owners : TRUE].name

\* the stub slots of a binary
SlotCount(bin) ==
    IF HasStubs(bin) THEN StubSection(bin).size \div StubSection(bin).entry_size
    ELSE 0

\* C14: the calls do_initial_linking makes are, in this order, the two
\* selector registrations, for every binary in list order its
\* setup_lazy_linking and then its do_non_lazy_linking, and last the
\* registration of the first binary's classes and categories (an aborting
\* call makes a prefix of them); every stub is installed inside the
\* setup_lazy_linking of its own binary, every step of eager linking happens
\* inside the do_non_lazy_linking of its own binary, and when eager linking
\* of a binary begins all of its stubs have been installed.
C14_InitialLinkingOrder ==
    call.op = "do_initial_linking" =>
        LET bs    == LoadedBins(image)
            trace == call.trace
            calls == SelectSeq(trace, IsCallEvent)
        IN  /\ Len(calls) <= Len(ExpectedCalls(bs))
            /\ calls = SubSeq(ExpectedCalls(bs), 1, Len(calls))
            /\ ~aborted => calls = ExpectedCalls(bs)
            /\ \A i \in 1..Len(trace) :
                /\ trace[i][1] = "stub" =>
                    CallAround(trace, i)
                        = <<"setup_lazy_linking", bs[BinaryAt(trace[i][2])].name>>
                /\ IsEagerEvent(trace[i]) =>
                    CallAround(trace, i)
                        = <<"do_non_lazy_linking", EagerOwner(bs, trace[i][2])>>
                /\ trace[i][1] = "do_non_lazy_linking" =>
                    \E k \in 1..Len(bs) :
                        /\ bs[k].name = trace[i][2]
                        /\ Cardinality({j \in 1..i :
                              /\ trace[j][1] = "stub"
                              /\ BinaryAt(trace[j][2]) = k}) = SlotCount(bs[k])

\* initial linking of the three binaries has run to its end
C14_Witness ==
    /\ call.op = "do_initial_linking"
    /\ ~aborted
    /\ Len(SelectSeq(call.trace, IsCallEvent)) = 10
    /\ \E i \in 1..Len(call.trace) : call.trace[i][1] = "stub"
    /\ \E i \in 1..Len(call.trace) : call.trace[i][1] = "later"
---------------------------------------------------------------------------
(* C15 *)

\* this step is the first call of do_initial_linking, for the bundle whose
\* sections are well formed
FirstInitialLinking ==
    /\ call'.op = "do_initial_linking"
    /\ ~return_to_host_routine.is_some
    /\ image = "ok"

\* the address of the data word that ends the slot at S
DataWordAt(S) == AddN(S, EntrySizeAt(S) - 4)

\* the slot at S is as setup_lazy_linking leaves it
SetUp(m, S) ==
    /\ Read32(m, S) = encode_a32_svc(SVC_LAZY_LINK)
    /\ Read32(m, AddN(S, 4)) = encode_a32_ret
    /\ EntrySizeAt(S) = 16 => Read32(m, AddN(S, 8)) = encode_a32_trap

\* C15: initial linking that runs to its end found the instruction words of
\* every stub slot of every binary equal to the template for the slot's
\* entry size and leaves every slot as [SVC 0, return], with the permanent
\* trap as third word of a 16-byte slot, and with the slot's final data word
\* as it was; initial linking that meets a slot with an instruction word
\* that differs from the template aborts and leaves that slot as it was.
C15_SetupVerifiesAndRewrites ==
    [][FirstInitialLinking =>
        /\ ~aborted' =>
            \A S \in StubAddrs :
                /\ LinkedToGuestExport(mem, S)
                /\ SetUp(mem', S)
                /\ Read32(mem', DataWordAt(S)) = Read32(mem, DataWordAt(S))
        /\ \A S \in StubAddrs :
            ~LinkedToGuestExport(mem, S) =>
                /\ aborted'
                /\ \A k \in 0..(EntrySizeAt(S) - 1) :
                    ByteAt(mem', AddN(S, k)) = ByteAt(mem, AddN(S, k))]_vars

\* initial linking has rewritten all seven slots of the three binaries
C15_Witness ==
    /\ call.op = "do_initial_linking"
    /\ ~aborted
    /\ \A S \in StubAddrs :
        /\ SetUp(mem, S)
        /\ Read32(mem, DataWordAt(S)) # Zero32
    /\ PlainStubAddrs # {}
    /\ PicStubAddrs # {}
---------------------------------------------------------------------------
(* C16 *)

\* the stub section of the binary is one setup_lazy_linking refuses
Malformed(bin) ==
    /\ HasStubs(bin)
    /\ \/ StubSection(bin).entry_size \notin {12, 16}
       \/ StubSection(bin).size % StubSection(bin).entry_size # 0

\* the bytes of the section are in n what they are in m
SectionUntouched(m, n, section) ==
    \A k \in 0..(section.size - 1) :
        ByteAt(n, AddN(section.addr, k)) = ByteAt(m, AddN(section.addr, k))

\* C16: a first initial linking that runs to its end has checked the slots
\* of every 12-byte section against the plain template and the slots of
\* every 16-byte section against the position-independent template; a first
\* initial linking of binaries one of which has a stub section with another
\* entry size, or with a size that is no multiple of its entry size, aborts
\* with no byte of that stub section changed.
C16_EntrySizeSelectsTemplate ==
    [][(call'.op = "do_initial_linking" /\ ~return_to_host_routine.is_some) =>
        LET bs == LoadedBins(image)
        IN  /\ ~aborted' =>
                \A k \in 1..Len(bs) :
                    HasStubs(bs[k]) =>
                        LET stubs == StubSection(bs[k])
                            tmpl  == CASE stubs.entry_size = 12 ->
                                            SYMBOL_STUB_INSTRUCTIONS
                                       [] stubs.entry_size = 16 ->
                                            PIC_SYMBOL_STUB_INSTRUCTIONS
                                       [] OTHER -> <<>>
                        IN  /\ tmpl # <<>>
                            /\ stubs.size % stubs.entry_size = 0
                            /\ \A i \in 0..(stubs.size \div stubs.entry_size - 1) :
                                \A j \in 1..Len(tmpl) :
                                    Read32(mem, AddN(stubs.addr,
                                            i * stubs.entry_size + 4 * (j - 1)))
                                        = tmpl[j]
            /\ \A k \in 1..Len(bs) :
                Malformed(bs[k]) =>
                    /\ aborted'
                    /\ SectionUntouched(mem, mem', StubSection(bs[k]))]_vars

\* initial linking has aborted at the stub section of the second binary,
\* whose size is no multiple of its entry size, after it had rewritten the
\* stubs of the first binary
C16_Witness ==
    /\ call.op = "do_initial_linking"
    /\ aborted
    /\ \E k \in 1..Len(LoadedBins(image)) :
        /\ Malformed(LoadedBins(image)[k])
        /\ StubSection(LoadedBins(image)[k]).entry_size = 16
    /\ \A S \in PlainStubAddrs : SetUp(mem, S)
---------------------------------------------------------------------------
(* C17 *)

\* this step is the first call of do_initial_linking, for the intact image
\* of the bundle whose sections are well formed
IntactInitialLinking == FirstInitialLinking /\ mem = LoadedImage

\* C17: in an initial linking of the intact bundle every external
\* relocation whose name is neither that of a class or metaclass nor the
\* constant string class reference is skipped with a warning and its target
\* word stays as it was, every other relocation of the binary, the later
\* ones included, has its target written with the pointer of the object
\* runtime, the named entries of the binary's non-lazy pointer table are
\* processed after the relocations, and the linking does not abort.
C17_UnknownRelocationSkipped ==
    [][IntactInitialLinking =>
        /\ ~aborted'
        /\ \A k \in 1..Len(bins) :
            LET relocs == bins[k].external_relocations
                trace  == call'.trace
                at(e)  == CHOOSE i \in 1..Len(trace) : trace[i] = e
            IN  \A i \in 1..Len(relocs) :
                    IF RelocationKind(relocs[i][2]) = "other"
                    THEN /\ Read32(mem', relocs[i][1]) = Read32(mem, relocs[i][1])
                         /\ \E j \in 1..Len(trace) :
                                trace[j] = <<"warning", relocs[i][1]>>
                         /\ HasSection(bins[k], "__nl_symbol_ptr") =>
                              \E j \in 1..Len(trace) :
                                /\ j > at(<<"warning", relocs[i][1]>>)
                                /\ trace[j][1] \in {"nl_symbol_ptr", "later"}
                                /\ EagerOwner(bins, trace[j][2]) = bins[k].name
                    ELSE /\ Read32(mem', relocs[i][1])
                              = RuntimePointer(RelocationKind(relocs[i][2]))
                         /\ Read32(mem, relocs[i][1])
                              # RuntimePointer(RelocationKind(relocs[i][2]))]_vars

\* initial linking has run to its end although a relocation of the first
\* binary was not handled; that relocation's target is as the file had it
\* and a relocation after it has been applied
C17_Witness ==
    /\ call.op = "do_initial_linking"
    /\ ~aborted
    /\ \E k \in 1..Len(bins) :
        \E i, j \in 1..Len(bins[k].external_relocations) :
            /\ i < j
            /\ RelocationKind(bins[k].external_relocations[i][2]) = "other"
            /\ Read32(mem, bins[k].external_relocations[i][1]) = Unbound
            /\ RelocationKind(bins[k].external_relocations[j][2]) # "other"
            /\ Read32(mem, bins[k].external_relocations[j][1])
                 = RuntimePointer(RelocationKind(bins[k].external_relocations[j][2]))
---------------------------------------------------------------------------
(* C18 *)

\* the entries of the non-lazy pointer tables of all binaries:
\* [binary, slot, symbol]
NonLazyEntries ==
    UNION {LET ptrs == get_section(bins[k], "__nl_symbol_ptr")
           IN  {[binary |-> k,
                 slot |-> AddN(ptrs.addr, 4 * i),
                 symbol |-> ptrs.indirect_undef_symbols[i + 1]] :
                    i \in 0..(ptrs.size \div 4 - 1)} :
           k \in {j \in 1..Len(bins) : HasSection(bins[j], "__nl_symbol_ptr")}}

\* the binaries that export the symbol
Exporters(symbol) == {k \in 1..Len(bins) : Exports(bins[k], symbol)}

\* the positions of the queue that name the slot
QueuedAt(queue, slot) == {j \in 1..Len(queue) : queue[j][1] = slot}

\* C18: in an initial linking of the intact bundle, an entry of a non-lazy
\* pointer table without a symbol name is skipped; a named entry whose
\* symbol some loaded binary exports, the binary itself included, has its
\* slot written with the address of the first exporter in list order and is
\* not queued, also when a host constant has that name; otherwise, if a
\* host constant has that name, exactly one (slot, descriptor) pair is
\* queued and the slot is not written; otherwise the slot is neither
\* written nor queued.  Nothing else is queued.
C18_NonLazyPointerResolution ==
    [][IntactInitialLinking =>
        /\ ~aborted'
        /\ \A e \in NonLazyEntries :
            LET queued   == QueuedAt(constants_to_link_later', e.slot)
                constant == search_lists(CONSTANT_LISTS, e.symbol)
                same     == Read32(mem', e.slot) = Read32(mem, e.slot)
            IN  IF e.symbol = NoSym THEN same /\ queued = {}
                ELSE IF Exporters(e.symbol) # {}
                THEN /\ \E k \in Exporters(e.symbol) :
                          /\ \A j \in Exporters(e.symbol) : k <= j
                          /\ Read32(mem', e.slot) = ExportAddr(bins[k], e.symbol)
                     /\ ~same
                     /\ queued = {}
                ELSE IF constant.found
                THEN /\ Cardinality(queued) = 1
                     /\ \A j \in queued :
                          constants_to_link_later'[j] = <<e.slot, constant.value>>
                     /\ same
                ELSE same /\ queued = {}
        /\ \A j \in 1..Len(constants_to_link_later') :
            \E e \in NonLazyEntries : e.slot = constants_to_link_later'[j][1]]_vars

\* initial linking has resolved a pointer to a symbol that two binaries
\* export, a pointer to a symbol that its own binary exports and that is a
\* host constant too, has queued constants and has left two slots alone
C18_Witness ==
    /\ call.op = "do_initial_linking"
    /\ ~aborted
    /\ \E e \in NonLazyEntries :
        /\ Cardinality(Exporters(e.symbol)) = 2
        /\ Read32(mem, e.slot) # Unbound
    /\ \E e \in NonLazyEntries :
        /\ e.binary \in Exporters(e.symbol)
        /\ search_lists(CONSTANT_LISTS, e.symbol).found
        /\ Read32(mem, e.slot) = ExportAddr(bins[e.binary], e.symbol)
    /\ Len(constants_to_link_later) = 4
    /\ Cardinality({e \in NonLazyEntries : Read32(mem, e.slot) = Unbound}) = 6
---------------------------------------------------------------------------
(* C19 *)

\* the constant symbols named by the non-lazy pointer tables have been
\* linked: none of their slots holds the value of the loaded image
ConstantsLinked ==
    \A e \in NonLazyEntries :
        (/\ Exporters(e.symbol) = {}
         /\ e.symbol # NoSym
         /\ search_lists(CONSTANT_LISTS, e.symbol).found)
            => Read32(mem, e.slot) # Unbound

\* C19: a late linking pass that returns writes the patch target of every
\* queued entry exactly once, in queue order, and leaves the queue empty; a
\* pass that finds the queue empty allocates nothing and writes nothing.
C19_LateLinkingConsumesQueue ==
    [][(call'.op = "do_late_linking" /\ ~aborted') =>
        LET to_link == constants_to_link_later
        IN  /\ constants_to_link_later' = <<>>
            /\ call'.trace =
                 [i \in 1..Len(to_link) |-> <<"constant", to_link[i][1]>>]
            /\ \A i \in 1..Len(to_link) :
                 Read32(mem', to_link[i][1]) # Read32(mem, to_link[i][1])
            /\ to_link = <<>> => (mem' = mem /\ allocs' = allocs)]_vars

\* a late linking pass has run after the pass that linked the queued
\* constants, and has found nothing to do
C19_Witness ==
    /\ call.op = "do_late_linking"
    /\ call.trace = <<>>
    /\ ~aborted
    /\ constants_to_link_later = <<>>
    /\ ConstantsLinked
    /\ image = "ok"
---------------------------------------------------------------------------
(* C20 *)

\* the two words of the return-to-host routine are at the address
RoutineAt(m, addr) ==
    /\ Read32(m, addr) = encode_a32_svc(SVC_RETURN_TO_HOST)
    /\ Read32(m, AddN(addr, 4)) = encode_a32_trap

\* C20: the return-to-host routine comes into being only in
\* do_initial_linking, as the words [A32 SVC 1, A32 permanent trap] at an
\* address without the Thumb bit, and every initial linking that returns
\* has created it; once it exists its address never changes; a
\* do_initial_linking called when it exists aborts and modifies nothing;
\* return_to_host_routine() aborts when it does not exist and returns its
\* address when it does.
C20_ReturnToHostRoutineOnce ==
    [][/\ return_to_host_routine.is_some
            => return_to_host_routine' = return_to_host_routine
       /\ (~return_to_host_routine.is_some /\ return_to_host_routine'.is_some)
            => /\ call'.op = "do_initial_linking"
               /\ RoutineAt(mem', return_to_host_routine'.addr)
               /\ ~RoutineAt(mem, return_to_host_routine'.addr)
               /\ ~is_thumb(return_to_host_routine'.addr)
       /\ (call'.op = "do_initial_linking" /\ ~aborted')
            => return_to_host_routine'.is_some
       /\ (call'.op = "do_initial_linking" /\ return_to_host_routine.is_some)
            => /\ aborted'
               /\ UNCHANGED <<mem, allocs, linked_host_functions,
                              constants_to_link_later, proc_addresses>>
       /\ call'.op = "return_to_host_routine"
            => /\ aborted' = ~return_to_host_routine.is_some
               /\ ~aborted' => call'.ret_addr = return_to_host_routine.addr
               /\ UNCHANGED <<mem, allocs>>]_vars

\* the routine exists, other operations have changed memory since, and a
\* second initial linking has aborted
C20_Witness ==
    /\ call.op = "do_initial_linking"
    /\ aborted
    /\ return_to_host_routine.is_some
    /\ RoutineAt(mem, return_to_host_routine.addr)
    /\ linked_host_functions # <<>>
    /\ call.trace = <<>>
    /\ image = "ok"
---------------------------------------------------------------------------
(* C21 *)

AccessOps == {"read", "write", "bytes_at", "bytes_at_mut", "ptr_at", "ptr_at_mut"}

InNullPage(a) == a[1] = 0 /\ a[2] < 4096

\* C21: every read, write, bytes_at, bytes_at_mut, ptr_at and ptr_at_mut
\* whose start address is below 0x1000 aborts the process, whatever the
\* size of the access, a size of zero included, and changes no byte.
C21_NullPageAccessFails ==
    [][(call'.op \in AccessOps /\ InNullPage(call'.ptr))
            => (aborted' /\ mem' = mem)]_vars

\* a bytes_at_mut of zero bytes at the last address of the null page has
\* aborted, after a write had succeeded
C21_Witness ==
    /\ call.op = "bytes_at_mut"
    /\ call.ptr = <<0, \hfff>>
    /\ call.count = Zero32
    /\ aborted
    /\ mem # <<>>

---------------------------------------------------------------------------
(* C22 *)

\* count * size without the wrap at 2^32: <<high part, low 16 bits>>
ExactProduct(count, size) ==
    <<count[1] * size + (count[2] * size) \div Half, (count[2] * size) % Half>>

\* the bytes an access asks for
BytesAsked(c) ==
    ExactProduct(c.count, IF c.op \in {"bytes_at", "bytes_at_mut"} THEN 1
                          ELSE guest_size_of(c.T))

\* a + n > 2^32, for a # 0
RunsPastTop(a, n) == Lt32(Neg32(a), n)

\* only bytes of [a, a + size) differ between the two memories
SameOutsideRange(m1, m2, a, size) ==
    \A x \in (DOMAIN m1) \cup (DOMAIN m2) :
        ByteAt(m1, x) # ByteAt(m2, x) => InRange(x, a, size)

\* C22: an access of n bytes at an address a >= 0x1000 aborts the process
\* exactly when a + n > 2^32; an access that aborts reads no value and
\* changes no byte, a write that succeeds changes bytes of [a, a + n) only,
\* and no other access changes a byte.
C22_AccessBounds ==
    [][(call'.op \in AccessOps /\ ~InNullPage(call'.ptr)) =>
        /\ aborted' = RunsPastTop(call'.ptr, BytesAsked(call'))
        /\ aborted' => (mem' = mem /\ call'.slice.panic)
        /\ (aborted' /\ call'.op = "read") => call'.value = NoValue
        /\ call'.op # "write" => mem' = mem
        /\ (call'.op = "write" /\ ~aborted')
            => SameOutsideRange(mem, mem', call'.ptr, guest_size_of(call'.T))
        /\ (~aborted' /\ call'.op \notin {"read", "write"})
            => (call'.slice.base = call'.ptr
                /\ call'.slice.len = BytesAsked(call'))]_vars

\* a write of eight bytes that starts seven bytes below the end of the
\* address space has aborted, after a write had succeeded
C22_Witness ==
    /\ call.op = "write"
    /\ call.T = "u64"
    /\ call.ptr = <<\hffff, \hfff9>>
    /\ aborted
    /\ mem # <<>>

---------------------------------------------------------------------------
(* C23 *)

\* C23: a read that follows a write of the same type at the same address,
\* with nothing in between, succeeds and returns the value written, whether
\* or not the address is a multiple of the type's size.
C23_WriteReadRoundTrip ==
    [][(/\ call.op = "write"
        /\ ~aborted
        /\ call'.op = "read"
        /\ call'.T = call.T
        /\ call'.ptr = call.ptr)
            => (~aborted' /\ call'.value = call.value)]_vars

\* an f64 with eight different bytes was written at an odd address and
\* read back
C23_Witness ==
    /\ call.op = "read"
    /\ call.T = "f64"
    /\ call.ptr = <<0, \h1001>>
    /\ call.value = HighValue("f64")
    /\ ~aborted
    /\ steps = 2
    /\ ReadBytes(mem, <<0, \h1001>>, 8) = <<16, 50, 84, 118, 152, 186, 220, 254>>
---------------------------------------------------------------------------
(* C24 *)

\* the live chunk that begins at the address
LiveAt(al, a) == {ch \in al : ch.base = a}

\* the number a byte count stands for
AsInt(n) == n[1] * Half + n[2]

\* C24: after a free that returns, every byte of [ptr, ptr + size), where
\* size is what the allocator had recorded for the chunk at ptr, reads back
\* as zero, and every byte outside that range is as it was.
C24_FreeZeroesTheChunk ==
    [][(call'.op = "free" /\ ~aborted') =>
        /\ LiveAt(allocs, call'.ptr) # {}
        /\ \A ch \in LiveAt(allocs, call'.ptr) :
            /\ \A i \in 0..(ch.size - 1) :
                read(mem', "u8", AddN(ch.base, i)) = [panic |-> FALSE, value |-> 0]
            /\ SameOutsideRange(mem, mem', ch.base, ch.size)
            /\ call'.count = U32(ch.size)]_vars

\* a chunk of SlotSize + 1 bytes was freed after a word had been written
\* across its end: the bytes of the word in the chunk are zero, the byte
\* after the chunk is not
C24_Witness ==
    /\ call.op = "free"
    /\ ~aborted
    /\ call.ptr = HeapBase
    /\ call.count = U32(SlotSize + 1)
    /\ ReadBytes(mem, AddN(HeapBase, SlotSize - 2), 4) = <<0, 0, 0, 254>>

---------------------------------------------------------------------------
(* C25 *)

\* no byte of [a, a + n), and not a itself, lies in [b, b + k)
Outside(a, n, b, k) ==
    /\ ~InRange(a, b, k)
    /\ \A i \in 0..(n - 1) : ~InRange(AddN(a, i), b, k)

\* C25: a reserved range stays reserved, and the chunk an alloc returns
\* has no byte in a range that was reserved before the call, whatever
\* alloc, free and reserve calls came earlier.
C25_ReservedNeverAllocated ==
    [][/\ reserved \subseteq reserved'
       /\ (call'.op = "alloc" /\ ~aborted') =>
            \A r \in reserved :
                Outside(call'.ptr, AsInt(call'.count), r.base, r.size)]_vars

\* with the second slot and the start of the first reserved, and after a
\* free, a chunk of SlotSize + 1 bytes was placed in the third slot
C25_Witness ==
    /\ call.op = "alloc"
    /\ ~aborted
    /\ call.count = U32(SlotSize + 1)
    /\ call.ptr = AddN(HeapBase, 2 * SlotSize)
    /\ Cardinality(reserved) = 2
    /\ Cardinality(allocs) = 1
    /\ steps = 5

---------------------------------------------------------------------------
(* C26 *)

\* the chunks are pairwise apart and no two begin at the same address
PairwiseDisjoint(al) ==
    \A c1, c2 \in al :
        c1 # c2 => (c1.base # c2.base
                    /\ Outside(c1.base, c1.size, c2.base, c2.size))

\* C26: the live chunks are pairwise disjoint after every operation, and
\* the chunk an alloc returns begins at no address and holds no byte of a
\* chunk that was live before the call; it becomes a live chunk of the size
\* asked for.
C26_LiveChunksDisjoint ==
    [][/\ PairwiseDisjoint(allocs')
       /\ (call'.op = "alloc" /\ ~aborted') =>
            /\ \A ch \in allocs :
                /\ call'.ptr # ch.base
                /\ Outside(call'.ptr, AsInt(call'.count), ch.base, ch.size)
            /\ allocs' = allocs \cup {[base |-> call'.ptr,
                                       size |-> AsInt(call'.count)]}]_vars

\* the first byte of the heap was handed out again, after the chunk that
\* held it had been freed while a second chunk stayed live
C26_Witness ==
    /\ call.op = "alloc"
    /\ ~aborted
    /\ call.ptr = HeapBase
    /\ reserved = {}
    /\ \E ch \in allocs : ch.base = AddN(HeapBase, SlotSize)
    /\ Cardinality(allocs) = 2
    /\ steps = 4

---------------------------------------------------------------------------
(* C27 *)

\* C27: an alloc either aborts the process or returns an address that is
\* not null: it has no other way to fail.
C27_AllocNeverNull ==
    [][call'.op = "alloc" => (aborted' \/ call'.ptr # Zero32)]_vars

\* an alloc of more than the heap holds has aborted while chunks were live
C27_Witness ==
    /\ call.op = "alloc"
    /\ aborted
    /\ call.count = U32(1073741824)
    /\ allocs # {}

---------------------------------------------------------------------------
(* C28 *)

\* C28: a free of an address at which no live chunk begins (an address
\* never allocated, an address inside a chunk, a reserved range, a chunk
\* already freed) aborts the process, and no byte has been zeroed and no
\* chunk released when it does.
C28_FreeOfDeadAddressAborts ==
    [][(call'.op = "free" /\ LiveAt(allocs, call'.ptr) = {})
            => (aborted' /\ mem' = mem /\ allocs' = allocs)]_vars

\* a free of the base of a reserved range has aborted and the bytes
\* written there are still in place
C28_Witness ==
    /\ call.op = "free"
    /\ aborted
    /\ call.ptr = AddN(HeapBase, SlotSize)
    /\ \E r \in reserved : r.base = call.ptr
    /\ ByteAt(mem, call.ptr) # 0
---------------------------------------------------------------------------
(* C29 *)

\* a + n * s without the wrap at 2^32: <<high part, low 16 bits>>
ExactSum(a, n, s) ==
    LET product == ExactProduct(n, s)
        lo      == a[2] + product[2]
    IN  <<a[1] + product[1] + lo \div Half, lo % Half>>

\* a - n * s, for n * s <= a
ExactDifference(a, n, s) ==
    LET product == ExactProduct(n, s)
        lo      == a[2] - product[2]
    IN  <<a[1] - product[1] - (IF lo < 0 THEN 1 ELSE 0), lo % Half>>

\* C29: for a pointer at address a with a pointee of s bytes, a + n is the
\* pointer of the same type at a + n * s when that number is below 2^32,
\* and a - n is the pointer at a - n * s when n * s <= a; in every other
\* case the operation aborts the process.
C29_PointerArithmeticChecked ==
    LET a == call.p.bits
        s == guest_size_of(call.p.T)
    IN  /\ call.op = "add" =>
            IF ExactSum(a, call.other, s)[1] < Half
            THEN /\ ~aborted
                 /\ call.ret = [call.p EXCEPT !.bits = ExactSum(a, call.other, s)]
            ELSE aborted
        /\ call.op = "sub" =>
            IF Le32(ExactProduct(call.other, s), a)
            THEN /\ ~aborted
                 /\ call.ret =
                      [call.p EXCEPT !.bits = ExactDifference(a, call.other, s)]
            ELSE aborted

\* an addition whose product fits in 32 bits and whose sum does not has
\* aborted
C29_Witness ==
    /\ call.op = "add"
    /\ aborted
    /\ call.p.T = "f64"
    /\ call.p.bits = <<\hffff, \hfff8>>
    /\ call.other = <<0, 1>>

---------------------------------------------------------------------------
(* C30 *)

\* C30: cast, cast_const and cast_mut return a pointer to the same address
\* (cast with the pointee type asked for and the mutability kept, the other
\* two with the pointee type kept), from_bits(to_bits(p)) is p, and eq is
\* true exactly when the two addresses are the same.
C30_CastKeepsAddress ==
    /\ call.op \in {"cast", "cast_const", "cast_mut"} =>
        /\ ~aborted
        /\ to_bits(call.ret) = call.p.bits
        /\ from_bits(call.p.T, call.p.MUT, to_bits(call.p)) = call.p
    /\ call.op = "cast" => (call.ret.T = call.U /\ call.ret.MUT = call.p.MUT)
    /\ call.op = "cast_const" => (call.ret.T = call.p.T /\ ~call.ret.MUT)
    /\ call.op = "cast_mut" => (call.ret.T = call.p.T /\ call.ret.MUT)
    /\ call.op = "eq" => (call.equal <=> call.p.bits = call.q.bits)

\* a pointer to bytes at an odd address was cast to a pointer to f64
C30_Witness ==
    /\ call.op = "cast"
    /\ call.p.T = "c_void"
    /\ call.U = "f64"
    /\ call.p.bits = <<0, \h1001>>
    /\ call.ret.bits = <<0, \h1001>>

---------------------------------------------------------------------------
(* C31 *)

\* the offsets from `a` at which a zero byte lies before the end of the
\* address space.  The non-zero bytes are those of DOMAIN m, so a run of
\* non-zero bytes is no longer than that many bytes.
TerminatorOffsets(m, a) ==
    {k \in 0..Cardinality(DOMAIN m) :
        ~AddNOverflows(a, k) /\ ByteAt(m, AddN(a, k)) = 0}

\* the bytes from `a` up to the first zero byte
StringAt(m, a) ==
    LET K   == TerminatorOffsets(m, a)
        end == CHOOSE k \in K : \A j \in K : k <= j
    IN  [i \in 1..end |-> ByteAt(m, AddN(a, i - 1))]

\* cstr_at returned the bytes up to the first zero byte, or aborted because
\* there is none
ScannedToTerminator(c, m) ==
    IF TerminatorOffsets(m, c.ptr) = {} THEN c.panic
    ELSE ~c.panic /\ c.bytes = StringAt(m, c.ptr)

\* the byte string up to its first zero byte
PrefixBeforeZero(str) ==
    LET Z == {i \in 1..Len(str) : str[i] = 0}
    IN  IF Z = {} THEN str
        ELSE SubSeq(str, 1, (CHOOSE i \in Z : \A j \in Z : i <= j) - 1)

\* cstr_at of the pointer alloc_and_write_cstr returned gives the string up
\* to its first zero byte
ReadsBackAsWritten(c, m) ==
    cstr_at(m, from_bits("u8", TRUE, c.ptr))
        = [panic |-> FALSE, bytes |-> PrefixBeforeZero(c.str)]

\* C31 as stated: for every pointer, cstr_at returns the bytes from the
\* pointer up to the first zero byte and aborts only when there is none
\* before the end of the address space; cstr_at of a string that
\* alloc_and_write_cstr wrote is the string up to its first zero byte.
C31_CstrAtAnyPointer ==
    [][/\ call'.op = "cstr_at" => ScannedToTerminator(call', mem)
       /\ (call'.op = "alloc_and_write_cstr" /\ ~aborted')
            => ReadsBackAsWritten(call', mem')]_vars

\* C31: for a pointer at or above the null page, cstr_at returns the bytes
\* from the pointer up to the first zero byte (none when the byte at the
\* pointer is zero) and aborts when there is no zero byte before the end of
\* the address space; for a pointer in the null page it aborts; cstr_at of a
\* string that alloc_and_write_cstr wrote is the string up to its first zero
\* byte.
C31_CstrAtScansToTerminator ==
    [][/\ (call'.op = "cstr_at" /\ ~InNullPage(call'.ptr))
            => ScannedToTerminator(call', mem)
       /\ (call'.op = "cstr_at" /\ InNullPage(call'.ptr)) => aborted'
       /\ (call'.op = "alloc_and_write_cstr" /\ ~aborted')
            => ReadsBackAsWritten(call', mem')]_vars

\* cstr_at returned "a" for the chunk that holds "a\0b\0"
C31_Witness ==
    /\ call.op = "cstr_at"
    /\ ~aborted
    /\ call.ptr = HeapBase
    /\ call.bytes = <<97>>
    /\ ByteAt(mem, AddN(HeapBase, 2)) = 98
    /\ [base |-> HeapBase, size |-> 4] \in allocs

---------------------------------------------------------------------------
(* C32 *)

\* the Thumb bit of an address and the address without it
ThumbBit(at) == at[2] % 2

InstructionAddr(at) == <<at[1], at[2] - ThumbBit(at)>>

\* the bytes of the breakpoint instruction for the instruction set the
\* address selects: 0xdf02 as a halfword, 0xef000002 as a word
BreakpointBytes(at) ==
    IF ThumbBit(at) = 1 THEN <<\h02, \hdf>> ELSE <<\h02, 0, 0, \hef>>

\* C32: set_breakpoint(at) writes the halfword 0xdf02 at `at` without its low
\* bit when that bit is set and the word 0xef000002 at `at` otherwise (it
\* aborts, writing nothing, exactly when Mem refuses that write); it changes
\* no other guest byte, neither the registry nor the queue of deferred
\* constants, and asks for no cache invalidation; a trap with SVC ID 2
\* aborts.
C32_BreakpointOverwritesOneInstruction ==
    [][/\ call'.op = "set_breakpoint" =>
            LET at    == call'.svc_pc
                addr  == InstructionAddr(at)
                bytes == BreakpointBytes(at)
            IN  /\ aborted' <=> ~AccessOk(addr, Len(bytes))
                /\ ~aborted' => ReadBytes(mem', addr, Len(bytes)) = bytes
                /\ aborted' => mem' = mem
                /\ SameOutsideRange(mem, mem', addr, Len(bytes))
                /\ linked_host_functions' = linked_host_functions
                /\ constants_to_link_later' = constants_to_link_later
                /\ return_to_host_routine' = return_to_host_routine
                /\ allocs' = allocs
                /\ call'.inval = <<>>
       /\ (call'.op = "get_svc_handler" /\ call'.svc = SVC_BREAKPOINT)
            => (aborted' /\ mem' = mem)]_vars

\* the trap of the Thumb breakpoint set at the first app stub aborted the
\* process: the stub's first halfword is 0xdf02 and its second halfword is
\* that of the SVC the linker wrote
C32_Witness ==
    /\ call.op = "get_svc_handler"
    /\ call.svc = SVC_BREAKPOINT
    /\ aborted
    /\ return_to_host_routine.is_some
    /\ Read32(mem, AppStubs.addr) = <<\hef00, \hdf02>>

---------------------------------------------------------------------------
(* C33 *)

\* a | b, bit by bit
RECURSIVE BitOr(_, _)
BitOr(a, b) ==
    IF a = 0 THEN b
    ELSE IF b = 0 THEN a
    ELSE (IF a % 2 = 1 \/ b % 2 = 1 THEN 1 ELSE 0)
            + 2 * BitOr(a \div 2, b \div 2)

\* C33: encode_a32_svc(imm) aborts exactly for imm >= 2^24 and otherwise
\* returns 0xef000000 | imm, whose top byte is 0xef and whose low 24 bits are
\* imm; encode_t32_svc(imm) is 0xdf00 | imm; encode_a32_ret is 0xe12fff1e and
\* encode_a32_trap is 0xe7ffdefe.
C33_EncodingsExact ==
    /\ call.op = "encode_a32_svc" =>
        /\ aborted <=> call.imm >= 16777216
        /\ ~aborted =>
            /\ call.word = <<BitOr(\hef00, call.imm \div Half), call.imm % Half>>
            /\ call.word[1] \div 256 = \hef
            /\ (call.word[1] % 256) * Half + call.word[2] = call.imm
    /\ call.op = "encode_t32_svc" =>
        /\ ~aborted
        /\ call.halfword = BitOr(\hdf00, call.imm)
        /\ call.halfword \div 256 = \hdf
    /\ call.op = "encode_a32_ret" => (~aborted /\ call.word = <<\he12f, \hff1e>>)
    /\ call.op = "encode_a32_trap" => (~aborted /\ call.word = <<\he7ff, \hdefe>>)

\* the largest immediate of an A32 SVC was encoded as 0xefffffff
C33_Witness ==
    /\ call.op = "encode_a32_svc"
    /\ ~aborted
    /\ call.imm = 16777215
    /\ call.word = <<\hefff, \hffff>>

---------------------------------------------------------------------------
(* C34 *)

\* the queue entries whose constant is kept in a cell of its own
CellEntries(queue) ==
    {i \in 1..Len(queue) : queue[i][2].kind \in {"NSString", "NullPtr"}}

\* what the cell of a constant holds: the string object, or a null pointer
CellContent(template) ==
    IF template.kind = "NSString" THEN StaticStr(template.arg) ELSE Zero32

\* C34: do_late_linking gives every queued string constant and null-pointer
\* constant a new 4-byte chunk that holds the string object pointer or 0, and
\* writes the chunk's non-null address to the entry's patch target; for a
\* custom constant it writes what the routine returned and allocates nothing;
\* the cells of different entries are different chunks, also when the entries
\* name the same constant.
C34_LateLinkingByKind ==
    [][(call'.op = "do_late_linking" /\ ~aborted') =>
        LET to_link == constants_to_link_later
            cells   == allocs' \ allocs
        IN  /\ \A i \in CellEntries(to_link) :
                LET cell == Read32(mem', to_link[i][1])
                IN  /\ cell # Zero32
                    /\ [base |-> cell, size |-> 4] \in cells
                    /\ Read32(mem', cell) = CellContent(to_link[i][2])
            /\ \A i \in (1..Len(to_link)) \ CellEntries(to_link) :
                 Read32(mem', to_link[i][1]) = CustomConstant(to_link[i][2].arg)
            /\ \A i, j \in CellEntries(to_link) :
                 i # j => Read32(mem', to_link[i][1]) # Read32(mem', to_link[j][1])
            /\ Cardinality(cells) = Cardinality(CellEntries(to_link))
            /\ allocs \subseteq allocs']_vars

\* late linking ran over a queue in which the app and libgcc_s both ask for
\* _kCFAllocatorDefault: the two targets point to two cells that hold 0, and
\* the target of the custom constant holds the routine's pointer
C34_Witness ==
    /\ call.op = "do_late_linking"
    /\ ~aborted
    /\ Len(call.trace) = 4
    /\ Read32(mem, AddN(AppNlPtrs.addr, 4)) # Read32(mem, AddN(GccNlPtrs.addr, 4))
    /\ Read32(mem, Read32(mem, AddN(AppNlPtrs.addr, 4))) = Zero32
    /\ Read32(mem, Read32(mem, AddN(GccNlPtrs.addr, 4))) = Zero32
    /\ Lt32(HeapBase, Read32(mem, AddN(GccNlPtrs.addr, 4)))
    /\ Read32(mem, Read32(mem, AddN(AppNlPtrs.addr, 12))) = StaticStr("")
    /\ Read32(mem, GccNlPtrs.addr) = CustomConstant("rune_locale")

---------------------------------------------------------------------------
(* C35 *)

\* the lazy linker has just returned from the trap at slot S, with a host
\* function or with the signal to resume at S
LazyLinkReturned(S) ==
    /\ call.op = "get_svc_handler"
    /\ call.lazy
    /\ call.svc_pc = S
    /\ ~aborted
    /\ call.ret \in {"Some", "None"}

\* executing slot S raises SVC 0: one of its instruction words is that
\* instruction
RaisesLazyLink(S) ==
    \E j \in 0..(EntrySizeAt(S) \div 4 - 2) :
        Read32(mem, AddN(S, 4 * j)) = encode_a32_svc(SVC_LAZY_LINK)

\* the statement over whole behaviours: once the lazy linker has returned
\* from the trap at S, slot S never raises SVC 0 again
LazyLinkAtMostOnce ==
    \A S \in StubAddrs : [](LazyLinkReturned(S) => []~RaisesLazyLink(S))

\* C35: each stub slot enters the lazy linker at most once.  When the lazy
\* linker returns from the trap at a slot, with a host function or with the
\* signal to resume at the slot, initial linking is over and no instruction
\* of the slot is SVC 0; and once initial linking is over a slot that holds
\* no SVC 0 never holds one again, whatever runs afterwards.
C35_LazyLinkAtMostOnce ==
    [][/\ (call'.op = "get_svc_handler" /\ call'.lazy /\ ~aborted') =>
            \A S \in StubAddrs \cap {call'.svc_pc} :
                LazyLinkReturned(S)' =>
                    /\ return_to_host_routine'.is_some
                    /\ ~RaisesLazyLink(S)'
       /\ (mem' # mem /\ return_to_host_routine.is_some) =>
            \A S \in StubAddrs :
                ~RaisesLazyLink(S) => ~RaisesLazyLink(S)']_vars

\* the lazy linker answered the trap at the app's stub for ___udivsi3 with the
\* signal to resume there, and the stub is the vendor's code again
C35_Witness ==
    /\ LazyLinkReturned(AddN(AppStubs.addr, 12))
    /\ call.ret = "None"
    /\ LinkedToGuestExport(mem, AddN(AppStubs.addr, 12))
    /\ ~RaisesLazyLink(AddN(AppStubs.addr, 12))

---------------------------------------------------------------------------
(* C36 *)

\* the instruction words of the slot at S in memory m
SlotInstructions(m, S) ==
    [j \in 1..(EntrySizeAt(S) \div 4 - 1) |-> Read32(m, AddN(S, 4 * (j - 1)))]

\* an ID of the host-function registry as it is now
RegisteredId(id) ==
    /\ id >= SVC_LINKED_FUNCTIONS_BASE
    /\ id < SVC_LINKED_FUNCTIONS_BASE + Len(linked_host_functions)

\* the three forms, each read off the slot on its own
HoldsLazyTrap(words) ==
    /\ words[1] = encode_a32_svc(SVC_LAZY_LINK)
    /\ words[2] = encode_a32_ret

HoldsHostTrap(words) ==
    /\ IsSvc(words[1])
    /\ RegisteredId(SvcImm(words[1]))
    /\ words[2] = encode_a32_ret

HoldsTemplate(words, S) == words = ExpectedInstructions(EntrySizeAt(S))

\* the words where the linker puts SVC instructions for guest code to run:
\* the instruction words of the stub slots and the two words of each
\* trampoline
LinkerCodeWords ==
    UNION {{AddN(S, 4 * j) : j \in 0..(EntrySizeAt(S) \div 4 - 2)} : S \in StubAddrs}
        \cup UNION {{p.addr, AddN(p.addr, 4)} : p \in proc_addresses}

\* get_svc_handler serves the ID: ID 0 goes to the lazy linker, every other
\* ID is answered with a registered function
Dispatchable(a, id) ==
    \/ id = SVC_LAZY_LINK
    \/ /\ RegisteredId(id)
       /\ get_svc_handler(Enter(FALSE), a, id).ret = "Some"

---------------------------------------------------------------------------
(* C37 *)

\* memory m without the bytes at the addresses of the set
MemoryOutside(m, addrs) == [x \in (DOMAIN m) \ addrs |-> m[x]]

\* the bytes of the instruction words of the slot at S
InstructionBytes(S) ==
    {AddN(S, k) : k \in 0..(4 * Len(ExpectedInstructions(EntrySizeAt(S))) - 1)}

\* the bytes of the slot at S, its trailing data word included
SlotBytes(S) == {AddN(S, k) : k \in 0..(EntrySizeAt(S) - 1)}

\* the bytes of all the stub slots
AllSlotBytes == UNION {SlotBytes(S) : S \in StubAddrs}

\* the bytes of the word do_lazy_link patches as the lazy symbol pointer of
\* the slot at S
LazyPointerBytes(S) ==
    LET la == LaSymbolPtr(mem, FALSE, EntrySizeAt(S), S,
                          Len(ExpectedInstructions(EntrySizeAt(S))))
    IN  {AddN(la.addr, k) : k \in 0..3}

\* C37: a lazy-link trap at a stub slot that returns changes no other stub
\* slot.  A host link changes bytes of the slot's first word only; a
\* guest-export link changes bytes of the slot's instruction words and of
\* the one 4-byte word it patches as the lazy symbol pointer only, and leaves
\* the host-function registry as it was.  Either way the slot's trailing
\* data word, every byte of every other slot and the queue of constants to
\* link later are unchanged.
C37_LazyLinkTouchesOneSlot ==
    [][\A S \in StubAddrs \cap {call'.svc_pc} :
        (LazyTrapAt(S) /\ ~aborted') =>
            LET host == HostFunctionAt(S).found
                written == IF host THEN {AddN(S, k) : k \in 0..3}
                           ELSE InstructionBytes(S) \cup LazyPointerBytes(S)
            IN  /\ MemoryOutside(mem', written) = MemoryOutside(mem, written)
                /\ ~host => linked_host_functions' = linked_host_functions
                /\ \A x \in AllSlotBytes \ InstructionBytes(S) :
                        ByteAt(mem', x) = ByteAt(mem, x)
                /\ constants_to_link_later' = constants_to_link_later]_vars

\* a guest-export link has changed both the slot and a lazy pointer, with
\* another slot linked to a host function before and constants still waiting
\* in the queue
C37_Witness ==
    /\ LazyLinkReturned(AddN(AppStubs.addr, 12))
    /\ call.ret = "None"
    /\ constants_to_link_later # <<>>
    /\ \E T \in StubAddrs : HoldsHostTrap(SlotInstructions(mem, T))
    /\ Read32(mem, Read32(mem, AddN(AppStubs.addr, 20)))
            = ExportedAddrAt(AddN(AppStubs.addr, 12))

---------------------------------------------------------------------------
(* C38 *)

\* this step leaves guest memory, the heap, the registry, the queue of
\* constants and the return-to-host routine as they were
DyldStateUnchanged ==
    /\ mem' = mem
    /\ allocs' = allocs
    /\ linked_host_functions' = linked_host_functions
    /\ constants_to_link_later' = constants_to_link_later
    /\ return_to_host_routine' = return_to_host_routine

\* C38: the trap ID decides what get_svc_handler does.  ID 0 runs the lazy
\* linker.  IDs 1 (return to host) and 2 (breakpoint) abort.  An ID >= 3
\* returns the function registered at position ID - 3 when ID - 3 is below
\* the length of the registry and aborts otherwise.  IDs other than 0 never
\* enter the lazy linker and change no state.  The answer None (resume at
\* svc_pc) comes only from a lazy link, at a stub slot whose symbol is no
\* host function and is exported by a dylib.
C38_OutcomeByTrapId ==
    [][call'.op = "get_svc_handler" =>
        LET id == call'.svc
        IN  /\ id = SVC_LAZY_LINK => call'.lazy
            /\ id \in {SVC_RETURN_TO_HOST, SVC_BREAKPOINT} =>
                    aborted' /\ ~call'.lazy /\ DyldStateUnchanged
            /\ id >= SVC_LINKED_FUNCTIONS_BASE =>
                /\ ~call'.lazy
                /\ DyldStateUnchanged
                /\ IF id - SVC_LINKED_FUNCTIONS_BASE < Len(linked_host_functions)
                   THEN /\ ~aborted'
                        /\ call'.ret = "Some"
                        /\ call'.ret_fn = linked_host_functions[
                                            id - SVC_LINKED_FUNCTIONS_BASE + 1]
                   ELSE aborted'
            /\ call'.ret = "None" =>
                /\ id = SVC_LAZY_LINK
                /\ ~aborted'
                /\ call'.svc_pc \in StubAddrs
                /\ GuestExported(call'.svc_pc)]_vars

\* the trap with ID 3 was answered with the function a lazy link registered
\* just before
C38_Witness ==
    /\ call.op = "get_svc_handler"
    /\ call.svc = SVC_LINKED_FUNCTIONS_BASE
    /\ call.ret = "Some"
    /\ ~aborted
    /\ Len(linked_host_functions) = 1
    /\ call.ret_fn = linked_host_functions[1]
    /\ HoldsHostTrap(SlotInstructions(mem, AppStubs.addr))

---------------------------------------------------------------------------
(* C39 *)

\* the stub sections of the loaded bundle
LoadedStubSections ==
    {StubSection(LoadedBins(image)[k]) :
        k \in {j \in 1..Len(LoadedBins(image)) : HasStubs(LoadedBins(image)[j])}}

\* address a is the first word of slot i of the stub section
SlotStart(stubs, i, a) ==
    /\ i \in 0..(stubs.size \div stubs.entry_size - 1)
    /\ a = AddN(stubs.addr, i * stubs.entry_size)

\* address a is the first word of a stub slot that has a symbol name
NamedSlotStart(a) ==
    \E stubs \in LoadedStubSections :
        \E i \in 0..(stubs.size \div stubs.entry_size - 1) :
            /\ SlotStart(stubs, i, a)
            /\ stubs.indirect_undef_symbols[i + 1] # NoSym

\* the addresses of the words of memory m that hold SVC 0 (the one non-zero
\* byte of that word is its last)
LazyTrapWords(m) ==
    {a \in {<<x[1], x[2] - 3>> : x \in {y \in DOMAIN m : y[2] % 4 = 3}} :
        Read32(m, a) = encode_a32_svc(SVC_LAZY_LINK)}

\* the stub-table search of do_lazy_link finds address a as the start of a
\* slot
FoundBySearch(a) ==
    LET owners == find_stubs(LoadedBins(image), a)
    IN  /\ owners # {}
        /\ LET stubs == StubSection(LoadedBins(image)[
                            CHOOSE k \in owners : \A j \in owners : k <= j])
           IN  SlotStart(stubs, Diff(a, stubs.addr) \div stubs.entry_size, a)

\* C39: a lazy-link trap is served only at the first word of a stub slot
\* that has a symbol name.  At any other address (in no stub section, not a
\* multiple of the entry size from the section start, or at a slot without
\* a name) the trap aborts and guest memory and the registry are as before.
\* And every address where initial linking has put SVC 0 is found by the
\* stub-table search of the lazy linker as the first word of a slot.
C39_LazyTrapOnlyAtNamedSlots ==
    [][/\ (/\ call'.op = "get_svc_handler"
           /\ call'.svc = SVC_LAZY_LINK
           /\ ~NamedSlotStart(call'.svc_pc)) =>
                /\ aborted'
                /\ mem' = mem
                /\ linked_host_functions' = linked_host_functions
       /\ call'.op = "do_initial_linking" =>
            \A a \in LazyTrapWords(mem') \ LazyTrapWords(mem) :
                FoundBySearch(a)]_vars

\* after initial linking of the bundle whose second app stub has no name,
\* the trap at that stub has aborted and the stub still holds SVC 0
C39_Witness ==
    /\ image = "nameless_stub"
    /\ call.op = "get_svc_handler"
    /\ call.svc = SVC_LAZY_LINK
    /\ call.svc_pc = AddN(AppStubs.addr, 12)
    /\ aborted
    /\ return_to_host_routine.is_some
    /\ AddN(AppStubs.addr, 12) \in LazyTrapWords(mem)
    /\ ~NamedSlotStart(AddN(AppStubs.addr, 12))

=============================================================================
